---- MODULE Spec2Model ----
(***************************************************************************)
(* State-machine model of the matchmaking and rating core of app.py        *)
(* (badminton club check-in application).                                  *)
(*                                                                         *)
(* Time is the integer number of seconds returned by _now().  Player ids   *)
(* are integers; the insertion order of db["players"] is the order of the  *)
(* ids.  A score of the selector is kept as the integer 180 * score, which *)
(* is exact for every term of the source (35/60 per second of wait, 2.5    *)
(* and 1.8 per rating point, 2000/3600 per second of group-of-4 age).      *)
(***************************************************************************)
EXTENDS Integers, Sequences, FiniteSets, TLC

(* ----------------------------- bounds ---------------------------------- *)
NumPlayers == 4        \* registered players of the club evening
NumPool == 5           \* players of the full waiting queue
MaxMatches == 2        \* matches opened in one behaviour
MaxScore == 32         \* highest score of a set sent to the validator
NumCrowd == 8          \* players of the evening with two courts' worth of queue
MaxSets == 3           \* sets of a result sent to _winner_from_sets
MaxQueued == 16        \* queued players counted by _cooldown_minutes
MaxSaves == 8          \* mutations recorded through save_db in one behaviour

(* ------------------------- program constants --------------------------- *)
SUPER_ADMIN_ID == 0
WAIT_WINDOW_SEC == 180
WAIT_EXPAND_STEPS == <<300, 480, 720>>
W_WAIT == 35
ALPHA_DIFF_x10 == 25
BETA_WITHIN_x10 == 18
HARD_SKILL_THRESHOLD == 500
DIVERSITY_WINDOW_SEC == 3600
TEAMMATE_PENALTIES == <<1200, 700, 400, 200, 100>>
OPPONENT_PENALTIES == <<600, 300, 150, 80>>
GROUP4_HARD_BAN_SEC == 600
GROUP4_SOFT_PENALTY == 2000
GROUP4_SOFT_SEC == 3600
PRIORITY_WAIT_BOOST == 9999
NOISE_SCALE == 5
REPORT_WINDOW_SEC == 60
CAND_LIMIT == 14
CALIB_GAMES == 10
DEFAULT_MMR == 1000
DEFAULT_TOTAL_COURTS == 2
DEFAULT_AVG_MATCH_MINUTES == 12
SCORE_CAP == 30

(* Python's None in an id-valued field, and an empty court. *)
None == 0 - 1
NoMatch == [status |-> "empty"]

\* The request threads of the server process.  No handler takes DB_LOCK (only
\* _flush_to_disk does), so the handlers of two threads run side by side.
Threads == {1, 2}

\* The write-behind after _load_db_from_disk: memory and disk hold version 0
\* of the database, _DB_DIRTY is False and no flush is under way.  The
\* requests of the club evening are modelled without their persistence; the
\* specification of the write-behind stands for a mutation by its version.
Synced == [version |-> 0, disk |-> 0, dirty |-> FALSE, pc |-> "idle"]

\* A thread that is not inside a fill.
Idle == [pc |-> "idle", court_id |-> None, teamA |-> <<>>, teamB |-> <<>>]

VARIABLES
    now,                \* the clock read by _now()
    players,            \* db["players"]: id -> player record
    courts,             \* db["courts"]: court id -> match state or NoMatch
    session_active,     \* system_settings.is_session_active
    total_courts,       \* system_settings.total_courts
    scoring,            \* system_settings.scoring
    automatch,          \* system_settings.automatch: court id -> flag
    avoid_4,            \* system_settings.avoid_4: list of [sig, ts, kind]
    recent_teammates,   \* system_settings.recent_teammates: pair -> [ts, count]
    recent_opponents,   \* system_settings.recent_opponents: pair -> [ts, count]
    avg_match_minutes,  \* system_settings.avg_match_minutes
    mod_ids,            \* db["mod_ids"]
    match_history,      \* db["match_history"], newest first
    formed,             \* number of matches opened so far (bounds the run)
    resp,               \* the response of the last request
    probe,              \* input and result of the pure-function specifications
    inflight,           \* request thread -> what a fill in progress has read so far
    writeback           \* the write-behind of the database: versions, dirty flag, flush

vars == <<now, players, courts, session_active, total_courts, scoring, automatch,
          avoid_4, recent_teammates, recent_opponents, avg_match_minutes, mod_ids,
          match_history, formed, resp, probe, inflight, writeback>>

(* ------------------------------ helpers -------------------------------- *)
Max(a, b) == IF a >= b THEN a ELSE b
Min(a, b) == IF a <= b THEN a ELSE b
Abs(a) == IF a >= 0 THEN a ELSE 0 - a

RECURSIVE SumSeq(_)
SumSeq(s) == IF s = <<>> THEN 0 ELSE Head(s) + SumSeq(Tail(s))

RECURSIVE Flatten(_)
Flatten(ss) == IF ss = <<>> THEN <<>> ELSE Head(ss) \o Flatten(Tail(ss))

SeqRange(s) == {s[i] : i \in DOMAIN s}

\* list.sort(key=...): a stable sort of s by the keys k (k[i] is the key of s[i]).
StableSort(s, k) ==
    LET n == Len(s)
        Rank(i) == Cardinality({j \in 1..n : k[j] < k[i] \/ (k[j] = k[i] /\ j < i)}) + 1
    IN  [p \in 1..n |-> s[CHOOSE i \in 1..n : Rank(i) = p]]

\* The ids of a set in insertion (ascending) order.
IdSeq(S) ==
    LET n == Cardinality(S)
    IN  [p \in 1..n |-> CHOOSE x \in S : Cardinality({y \in S : y < x}) = p - 1]

\* sorted(ids) of a list of ids (duplicates kept).
SortIds(s) == StableSort(s, s)

Roster == DOMAIN players
CourtIds == DOMAIN courts

\* The part of the database a request handler passes from step to step.
Db == [players |-> players, courts |-> courts, automatch |-> automatch,
       avoid_4 |-> avoid_4, recent_teammates |-> recent_teammates,
       recent_opponents |-> recent_opponents, formed |-> formed]

NewPlayer ==
    [status |-> "offline", queue_join_ts |-> 0, cooldown_until |-> 0,
     auto_rest |-> FALSE, priority_match |-> FALSE, mmr |-> DEFAULT_MMR,
     calib_played |-> 0, calib_wins |-> 0, calib_losses |-> 0, calib_streak |-> 0,
     outgoing_req |-> None, incoming_reqs |-> <<>>, paired_with |-> None,
     sets_w |-> 0, sets_l |-> 0, points_for |-> 0, points_against |-> 0,
     match_w |-> 0, match_l |-> 0, best_streak |-> 0, cur_streak |-> 0]

is_unranked(p) == p.calib_played < CALIB_GAMES

effective_mmr_for_matchmaking(p) ==
    IF ~is_unranked(p) THEN p.mmr
    ELSE p.mmr + (p.calib_wins - p.calib_losses) * 60 + p.calib_streak * 40

IsStaff(uid) == uid = SUPER_ADMIN_ID \/ uid \in mod_ids


(* ------------------------ candidate pool builder ----------------------- *)
Waiting(db, uid) ==
    /\ db.players[uid].status = "queue"
    /\ db.players[uid].cooldown_until <= now

\* Queued players whose cooldown is over, oldest queue_join_ts first.
_eligible_players(db) ==
    LET ids == SelectSeq(IdSeq(DOMAIN db.players), LAMBDA uid : Waiting(db, uid))
    IN  StableSort(ids, [i \in DOMAIN ids |-> db.players[ids[i]].queue_join_ts])

\* The units from position i of the sorted players on, skipping the ids in seen.
RECURSIVE PairUnitsFrom(_, _, _, _)
PairUnitsFrom(db, sorted, i, seen) ==
    IF i > Len(sorted) THEN <<>>
    ELSE LET uid == sorted[i]
             paired == db.players[uid].paired_with
         IN  IF uid \in seen THEN PairUnitsFrom(db, sorted, i + 1, seen)
             ELSE IF paired /= None /\ paired \in DOMAIN db.players /\ Waiting(db, paired)
                  THEN <<[members |-> <<uid, paired>>,
                          ts |-> Min(db.players[uid].queue_join_ts,
                                     db.players[paired].queue_join_ts),
                          size |-> 2]>>
                       \o PairUnitsFrom(db, sorted, i + 1, seen \cup {uid, paired})
                  ELSE <<[members |-> <<uid>>,
                          ts |-> db.players[uid].queue_join_ts,
                          size |-> 1]>>
                       \o PairUnitsFrom(db, sorted, i + 1, seen \cup {uid})

_pair_units(db, sorted) ==
    LET units == PairUnitsFrom(db, sorted, 1, {})
    IN  StableSort(units, [i \in DOMAIN units |-> units[i].ts])

_player_wait(p) ==
    Max(0, now - p.queue_join_ts) + (IF p.priority_match THEN PRIORITY_WAIT_BOOST ELSE 0)

UnitWait(db, u) ==
    IF u.size = 2
    THEN Max(_player_wait(db.players[u.members[1]]), _player_wait(db.players[u.members[2]]))
    ELSE _player_wait(db.players[u.members[1]])

\* The units whose wait is within the window of the oldest wait.
InPool(units, waits, oldest_wait, window) ==
    {i \in DOMAIN units : waits[i] >= oldest_wait - window}

PoolSlots(units, pool) ==
    SumSeq([i \in DOMAIN units |-> IF i \in pool THEN units[i].size ELSE 0])

PoolIds(units, pool) ==
    Flatten([i \in DOMAIN units |-> IF i \in pool THEN units[i].members ELSE <<>>])

\* The windows tried in turn: WAIT_WINDOW_SEC, the WAIT_EXPAND_STEPS, then all.
PoolWindows == <<WAIT_WINDOW_SEC>> \o WAIT_EXPAND_STEPS \o <<999999>>

RECURSIVE PoolFrom(_, _, _, _)
PoolFrom(units, waits, oldest_wait, k) ==
    IF k > Len(PoolWindows) THEN <<>>
    ELSE IF PoolSlots(units, InPool(units, waits, oldest_wait, PoolWindows[k])) >= 4
         THEN PoolIds(units, InPool(units, waits, oldest_wait, PoolWindows[k]))
         ELSE PoolFrom(units, waits, oldest_wait, k + 1)

MaxOf(S) == CHOOSE w \in S : \A x \in S : x <= w
MinOf(S) == CHOOSE w \in S : \A x \in S : w <= x

\* The ids of the first wait window that holds four player slots (pool_ids).
PoolOfWaits(units, waits) == PoolFrom(units, waits, MaxOf(SeqRange(waits)), 1)

_build_candidate_pool(db, units) ==
    IF units = <<>> THEN <<>>
    ELSE PoolOfWaits(units, [i \in DOMAIN units |-> UnitWait(db, units[i])])

(* --------------------------- diversity ledger -------------------------- *)
_pair_key(a, b) == {a, b}
_group4_sig(four_ids) == SortIds(four_ids)

CleanStore(store) ==
    [k \in {x \in DOMAIN store : now - store[x].ts <= DIVERSITY_WINDOW_SEC} |-> store[k]]

\* _cleanup_diversity at time now.
_cleanup_diversity(db) ==
    [db EXCEPT !.recent_teammates = CleanStore(@),
               !.recent_opponents = CleanStore(@),
               !.avoid_4 = SelectSeq(@, LAMBDA item : now - item.ts <= GROUP4_SOFT_SEC)]

\* _score_group4_diversity: ban for a hard ban, else pen is the penalty times
\* 180.  The loop returns at the first entry of the signature that is at
\* most GROUP4_SOFT_SEC old.
_score_group4_diversity(db, four_ids) ==
    LET sig == _group4_sig(four_ids)
        avoid == db.avoid_4
        hits == {i \in DOMAIN avoid : avoid[i].sig = sig
                                      /\ now - avoid[i].ts <= GROUP4_SOFT_SEC}
    IN  IF hits = {} THEN [ban |-> FALSE, pen |-> 0]
        ELSE LET i == CHOOSE x \in hits : \A y \in hits : x <= y
                 age == now - avoid[i].ts
             IN  IF age <= GROUP4_HARD_BAN_SEC THEN [ban |-> TRUE, pen |-> 0]
                 ELSE [ban |-> FALSE,
                       pen |-> (GROUP4_SOFT_PENALTY * 180 * (GROUP4_SOFT_SEC - age))
                                 \div GROUP4_SOFT_SEC]

Penalty(table, count) ==
    IF count > 0 /\ count <= Len(table) THEN table[count]
    ELSE IF count > Len(table) THEN table[Len(table)]
    ELSE 0

StoreCount(store, key) == IF key \in DOMAIN store THEN store[key].count ELSE 0

\* _score_pair_diversity: teammate and opponent repetition penalties of one team.
_score_pair_diversity(db, team_ids, opponent_ids, partner_pair_set) ==
    (IF {team_ids[1], team_ids[2]} \in partner_pair_set THEN 0
     ELSE Penalty(TEAMMATE_PENALTIES,
                  StoreCount(db.recent_teammates, _pair_key(team_ids[1], team_ids[2]))))
    + SumSeq([i \in 1..4 |->
                Penalty(OPPONENT_PENALTIES,
                        StoreCount(db.recent_opponents,
                                   _pair_key(team_ids[((i - 1) \div 2) + 1],
                                             opponent_ids[((i - 1) % 2) + 1])))])

(* ------------------------ team splitter / scorer ----------------------- *)
TeamSum(db, team) ==
    effective_mmr_for_matchmaking(db.players[team[1]])
      + effective_mmr_for_matchmaking(db.players[team[2]])
TeamGap(db, team) ==
    Abs(effective_mmr_for_matchmaking(db.players[team[1]])
          - effective_mmr_for_matchmaking(db.players[team[2]]))
TeamDiff(db, sp) == Abs(TeamSum(db, sp.teamA) - TeamSum(db, sp.teamB))

\* 180 * _skill_score.
_skill_score(db, teamA, teamB) ==
    18 * (ALPHA_DIFF_x10 * Abs(TeamSum(db, teamA) - TeamSum(db, teamB))
            + BETA_WITHIN_x10 * (TeamGap(db, teamA) + TeamGap(db, teamB)))

\* The pairs {uid, paired_with} with both ends among the four.
_get_partner_pairs(db, four_ids) ==
    {{four_ids[i], db.players[four_ids[i]].paired_with} :
        i \in {j \in 1..4 : db.players[four_ids[j]].paired_with \in SeqRange(four_ids)}}

Splits(a) ==
    <<[teamA |-> <<a[1], a[2]>>, teamB |-> <<a[3], a[4]>>],
      [teamA |-> <<a[1], a[3]>>, teamB |-> <<a[2], a[4]>>],
      [teamA |-> <<a[1], a[4]>>, teamB |-> <<a[2], a[3]>>]>>

\* "Enforce partner pair must be same team".
SplitKeepsPairs(sp, partner_pairs) ==
    \A pr \in partner_pairs :
        ~(\E u \in pr, v \in pr :
             /\ pr = {u, v}
             /\ u \in SeqRange(sp.teamA)
             /\ v \in SeqRange(sp.teamB))

\* 180 * (s_wait + s_skill + s_div) of split k of the four: the total without
\* its noise term.
SplitBase(db, four_ids, k) ==
    LET sp == Splits(four_ids)[k]
        pp == _get_partner_pairs(db, four_ids)
        total_wait == SumSeq([i \in 1..4 |-> _player_wait(db.players[four_ids[i]])])
    IN  (0 - 3 * W_WAIT * total_wait)
        + _skill_score(db, sp.teamA, sp.teamB)
        + 180 * (_score_pair_diversity(db, sp.teamA, sp.teamB, pp)
                   + _score_pair_diversity(db, sp.teamB, sp.teamA, pp))
        + _score_group4_diversity(db, four_ids).pen

LegalSplits(db, four_ids) ==
    IF _score_group4_diversity(db, four_ids).ban THEN {}
    ELSE {k \in 1..3 :
            SplitKeepsPairs(Splits(four_ids)[k], _get_partner_pairs(db, four_ids))}

\* random.uniform(0, NOISE_SCALE) is drawn once per split, so the split kept
\* by _best_split_for_four is any legal split whose total can be made the
\* smallest: its base is less than every other base plus the noise range.
NoiseRange == 180 * NOISE_SCALE

\* base[k] of the legal splits k; the result is the bases of the splits that
\* can be best.
CanBeBest(base) ==
    [k \in {x \in DOMAIN base : \A j \in DOMAIN base \ {x} : base[x] < base[j] + NoiseRange}
       |-> base[k]]

_best_split_for_four(db, four_ids) ==
    CanBeBest([k \in LegalSplits(db, four_ids) |-> SplitBase(db, four_ids, k)])

(* ---------------------------- match selector --------------------------- *)
NoPick == [combo |-> <<>>, teamA |-> <<>>, teamB |-> <<>>]

\* itertools.combinations(cand, 4): the four ids at increasing positions.
Combinations4(cand) ==
    LET n == Len(cand)
    IN  {<<cand[q[1]], cand[q[2]], cand[q[3]], cand[q[4]]>> :
            q \in {x \in (1..n) \X (1..n) \X (1..n) \X (1..n) :
                     x[1] < x[2] /\ x[2] < x[3] /\ x[3] < x[4]}}

\* The paired rule left out: every combination passes.
PairedRuleOff(db, combo) == TRUE

\* "Paired rule: if someone is paired, partner must be in combo".
PairedRuleOk(db, combo) ==
    \A i \in 1..4 :
        LET pw == db.players[combo[i]].paired_with
        IN  (pw /= None /\ pw \in DOMAIN db.players /\ db.players[pw].status = "queue")
                => pw \in SeqRange(combo)

ClearPriority(db, combo) ==
    [db EXCEPT !.players =
        [u \in DOMAIN @ |-> IF u \in SeqRange(combo)
                            THEN [@[u] EXCEPT !.priority_match = FALSE] ELSE @[u]]]

\* No hard skill cap: every split passes.
PassAll(db, has_alternative, c, k) == TRUE

\* "if has_alternative and team_diff > HARD_SKILL_THRESHOLD: continue"
Pass(db, has_alternative, c, k) ==
    ~has_alternative \/ TeamDiff(db, Splits(c)[k]) <= HARD_SKILL_THRESHOLD

\* c is scored when it has a legal split, and then any split of best[c] can be
\* its best one: c is discarded when that split fails the threshold, else kept.
CanDiscard(db, has_alternative, best, c) ==
    \E k \in DOMAIN best[c] : ~Pass(db, has_alternative, c, k)

CanKeep(db, has_alternative, best, c) ==
    \E k \in DOMAIN best[c] : Pass(db, has_alternative, c, k)

\* Split k of combo c can come out with the lowest score of all the combos
\* kept: every other scored combo can be discarded, or scores above it for
\* some draw of the noise.
Pickable(db, has_alternative, best, scored, c, k) ==
    /\ Pass(db, has_alternative, c, k)
    /\ \A d \in scored \ {c} :
          \/ CanDiscard(db, has_alternative, best, d)
          \/ /\ CanKeep(db, has_alternative, best, d)
             /\ best[c][k] < MinOf({best[d][j] : j \in DOMAIN best[d]}) + NoiseRange

PickOf(db, c, k) ==
    [db |-> ClearPriority(db, c),
     pick |-> [combo |-> c, teamA |-> Splits(c)[k].teamA, teamB |-> Splits(c)[k].teamB]]

\* The results of the loop over the combos, best[c] being the bases of the
\* splits of c that can be its best one.
PickLowest(db, has_alternative, best, scored) ==
    {PickOf(db, ck[1], ck[2]) :
        ck \in {x \in scored \X (1..3) :
                  /\ x[2] \in DOMAIN best[x[1]]
                  /\ Pickable(db, has_alternative, best, scored, x[1], x[2])}}
    \cup (IF \A c \in scored : CanDiscard(db, has_alternative, best, c)
          THEN {[db |-> db, pick |-> NoPick]} ELSE {})

ScoreCombos(db, has_alternative, best) ==
    PickLowest(db, has_alternative, best, {c \in DOMAIN best : DOMAIN best[c] /= {}})

ChooseAmong(db, cand) ==
    IF Len(cand) < 4 THEN {[db |-> db, pick |-> NoPick]}
    ELSE ScoreCombos(db, Len(cand) > 4,
                     [c \in {x \in Combinations4(cand) : PairedRuleOk(db, x)}
                        |-> _best_split_for_four(db, c)])

FirstOf(s, n) == SubSeq(s, 1, Min(n, Len(s)))

ChooseFromEligible(db, eligible) ==
    ChooseAmong(db, FirstOf(_build_candidate_pool(db, _pair_units(db, eligible)),
                            CAND_LIMIT))

\* _choose_four_for_court: every [db, pick] the call can return, db being the
\* database as the call leaves it (ledger cleaned, priority flags of the
\* picked players cleared).  A combo's score is the noisy total of its best
\* split; a pick is possible when some draw of the noise makes it the lowest
\* score among the combos that are not discarded.
_choose_four_for_court(db) ==
    IF Cardinality({uid \in DOMAIN db.players : Waiting(db, uid)}) < 4
    THEN {[db |-> db, pick |-> NoPick]}
    ELSE ChooseFromEligible(_cleanup_diversity(db), _eligible_players(db))

(* ------------------------- court state machine ------------------------- *)
RECURSIVE BumpAll(_, _)
\* entry["ts"] = now; entry["count"] += 1 for each key of the list in turn.
BumpAll(store, keys) ==
    IF keys = <<>> THEN store
    ELSE LET k == Head(keys)
             e == [ts |-> now, count |-> StoreCount(store, k) + 1]
         IN  BumpAll([x \in DOMAIN store \cup {k} |-> IF x = k THEN e ELSE store[x]],
                     Tail(keys))

\* The ledgers left as they were when a match is formed.
LedgerUntouched(db, team_a_ids, team_b_ids) == db

_update_diversity_after_match(db, team_a_ids, team_b_ids) ==
    [db EXCEPT
       !.recent_teammates =
           BumpAll(@, <<_pair_key(team_a_ids[1], team_a_ids[2]),
                        _pair_key(team_b_ids[1], team_b_ids[2])>>),
       !.recent_opponents =
           BumpAll(@, <<_pair_key(team_a_ids[1], team_b_ids[1]),
                        _pair_key(team_a_ids[1], team_b_ids[2]),
                        _pair_key(team_a_ids[2], team_b_ids[1]),
                        _pair_key(team_a_ids[2], team_b_ids[2])>>),
       !.avoid_4 = Append(@, [sig |-> _group4_sig(team_a_ids \o team_b_ids),
                              ts |-> now, kind |-> "formed"])]

\* _create_match_on_court.  team_mmr_a2 and team_mmr_b2 are twice the stored
\* team averages (the sums of the effective ratings).
_create_match_on_court(db, court_id, teamA_ids, teamB_ids, reason) ==
    LET match_state ==
            [court_id |-> court_id, created_at |-> now,
             start_at |-> now + REPORT_WINDOW_SEC,
             team_a_ids |-> teamA_ids, team_b_ids |-> teamB_ids,
             team_mmr_a2 |-> TeamSum(db, teamA_ids),
             team_mmr_b2 |-> TeamSum(db, teamB_ids),
             status |-> "pending", reason |-> reason]
        four == SeqRange(teamA_ids \o teamB_ids)
        db1 == [db EXCEPT
                  !.players = [u \in DOMAIN @ |->
                                 IF u \in four THEN [@[u] EXCEPT !.status = "playing"]
                                 ELSE @[u]],
                  !.courts = [c \in DOMAIN @ \cup {court_id} |->
                                 IF c = court_id THEN match_state ELSE @[c]],
                  !.formed = @ + 1]
    IN  _update_diversity_after_match(db1, teamA_ids, teamB_ids)

\* Every court passes for empty.
CourtNeverBusy(db, cid) == TRUE

CourtEmpty(db, cid) == cid \notin DOMAIN db.courts \/ db.courts[cid].status = "empty"
AutomatchOn(db, cid) == cid \in DOMAIN db.automatch /\ db.automatch[cid]

\* A loop over the courts that fills the empty ones, from position i of the
\* list on: every [db, changed] it can end with.  With reason "automatch" it
\* is the loop of _maybe_run_automatch (courts with automatch on), with
\* "manual_button" the loop of matchmake without a courtId (courts with
\* automatch off).
RECURSIVE FillFrom(_, _, _, _)
FillFrom(db, cids, i, reason) ==
    IF i > Len(cids) THEN {[db |-> db, changed |-> FALSE]}
    ELSE IF \/ ~CourtEmpty(db, cids[i])
            \/ AutomatchOn(db, cids[i]) /= (reason = "automatch")
         THEN FillFrom(db, cids, i + 1, reason)
         ELSE UNION {
                IF o.pick = NoPick THEN FillFrom(o.db, cids, i + 1, reason)
                ELSE {[r EXCEPT !.changed = TRUE] :
                        r \in FillFrom(
                                _create_match_on_court(o.db, cids[i], o.pick.teamA,
                                                       o.pick.teamB, reason),
                                cids, i + 1, reason)}
                : o \in _choose_four_for_court(db)}

_maybe_run_automatch(db) ==
    IF ~session_active THEN {[db |-> db, changed |-> FALSE]}
    ELSE FillFrom(db, IdSeq(DOMAIN db.courts), 1, "automatch")

(* ------------------------------ scoring -------------------------------- *)
\* _validate_set_score on two integers (None stands for a missing score).
\* The validator with the rule that at the cap the loser has cap - 1 only.
validate_cap_minus_one(a, b, points, cap) ==
    IF a = None \/ b = None THEN FALSE
    ELSE IF a < 0 \/ b < 0 THEN FALSE
    ELSE IF Max(a, b) < points THEN FALSE
    ELSE IF Max(a, b) < cap THEN Max(a, b) - Min(a, b) >= 2
    ELSE Max(a, b) = cap /\ Min(a, b) = cap - 1

_validate_set_score(a, b, points, cap) ==
    IF a = None \/ b = None THEN FALSE
    ELSE IF a < 0 \/ b < 0 THEN FALSE
    ELSE LET mx == Max(a, b)
             mn == Min(a, b)
         IN  IF mx < points THEN FALSE
             ELSE IF mx < cap THEN mx - mn >= 2
             ELSE IF mx /= cap THEN FALSE
             ELSE mn \in {cap - 1, cap - 2}

SetsWon(clean, side) ==
    Cardinality({i \in DOMAIN clean :
                   IF side = "A" THEN clean[i].a > clean[i].b ELSE clean[i].b > clean[i].a})

\* The winner of the last set wins the match, whatever the best-of.
WinnerByLastSet(clean, bo, sets_won_a, sets_won_b, total_a, total_b) ==
    IF clean[Len(clean)].a > clean[Len(clean)].b THEN "A" ELSE "B"

\* The winner of the sets counted: by total points in a best-of-2 (then by
\* sets, then by the last set), by sets otherwise.
WinnerOf(clean, bo, sets_won_a, sets_won_b, total_a, total_b) ==
    IF bo = 2
    THEN IF total_a > total_b THEN "A"
         ELSE IF total_b > total_a THEN "B"
         ELSE IF sets_won_a > sets_won_b THEN "A"
         ELSE IF sets_won_b > sets_won_a THEN "B"
         ELSE IF clean[Len(clean)].a > clean[Len(clean)].b THEN "A" ELSE "B"
    ELSE IF sets_won_a > sets_won_b THEN "A" ELSE "B"

\* The checks without the two of the best-of-3 on who won the first two sets.
BadSetsByCountOnly(clean, bo, points, cap) ==
    \/ \E i \in DOMAIN clean : ~_validate_set_score(clean[i].a, clean[i].b, points, cap)
    \/ Len(clean) = 0
    \/ bo = 1 /\ Len(clean) /= 1
    \/ bo = 2 /\ Len(clean) /= 2
    \/ bo = 3 /\ (Len(clean) < 2 \/ Len(clean) > 3)

\* The checks of _winner_from_sets on the sets that are not skipped.
BadSets(clean, bo, points, cap) ==
    \/ \E i \in DOMAIN clean : ~_validate_set_score(clean[i].a, clean[i].b, points, cap)
    \/ Len(clean) = 0
    \/ bo = 1 /\ Len(clean) /= 1
    \/ bo = 2 /\ Len(clean) /= 2
    \/ bo = 3 /\ (Len(clean) < 2 \/ Len(clean) > 3)
    \/ bo = 3 /\ Len(clean) = 3 /\ (SetsWon(SubSeq(clean, 1, 2), "A") >= 2
                                    \/ SetsWon(SubSeq(clean, 1, 2), "B") >= 2)
    \/ bo = 3 /\ Len(clean) = 2 /\ SetsWon(clean, "A") /= 2 /\ SetsWon(clean, "B") /= 2

\* A set that A does not win counts for B.
ResultOf(clean, bo, sets_won_a, total_a, total_b) ==
    [ok |-> TRUE, sets_won_a |-> sets_won_a, sets_won_b |-> Len(clean) - sets_won_a,
     total_points_a |-> total_a, total_points_b |-> total_b,
     winner |-> WinnerOf(clean, bo, sets_won_a, Len(clean) - sets_won_a, total_a, total_b),
     clean |-> clean]

\* The messages of the set validator and of the count of the sets are one
\* message here.
CountSets(clean, bo, points, cap) ==
    IF BadSets(clean, bo, points, cap) THEN [ok |-> FALSE, msg |-> "invalid scores"]
    ELSE ResultOf(clean, bo, SetsWon(clean, "A"),
                  SumSeq([i \in DOMAIN clean |-> clean[i].a]),
                  SumSeq([i \in DOMAIN clean |-> clean[i].b]))

\* _winner_from_sets: [ok |-> FALSE] for an error, else the result.  A set with
\* both scores missing is skipped.
_winner_from_sets(set_scores, bo, points, cap) ==
    CountSets(SelectSeq(set_scores, LAMBDA s : ~(s.a = None /\ s.b = None)),
              bo, points, cap)

(* ---------------------------- rating engine ---------------------------- *)
\* round(num / den) with a tie rounded up: floor(num / den + 1/2).
RoundHalfUp(num, den) == (2 * num + den) \div (2 * den)

\* round(num / den) as Python rounds a float: to the nearest integer, a tie to
\* the even one (den > 0).
RoundHalfEven(num, den) ==
    LET q == num \div den
        r == num - q * den
    IN  IF 2 * r < den THEN q
        ELSE IF 2 * r > den THEN q + 1
        ELSE IF q % 2 = 0 THEN q ELSE q + 1

\* 4096 * 10^(2^k / 800) for k = 0..9, to the nearest integer.
Pow10Steps == <<4108, 4120, 4143, 4191, 4289, 4491, 4924, 5921, 8558, 17880>>

\* 4096 * 10^(r / 800) for 0 <= r < 800, in 12-bit fixed point: the product of
\* the steps of the binary digits of r.
RECURSIVE Pow10Frac(_, _, _)
Pow10Frac(r, k, acc) ==
    IF k > Len(Pow10Steps) THEN acc
    ELSE Pow10Frac(r \div 2, k + 1,
                   IF r % 2 = 1 THEN (acc * Pow10Steps[k] + 2048) \div 4096 ELSE acc)

RECURSIVE Pow10(_)
Pow10(n) == IF n = 0 THEN 1 ELSE 10 * Pow10(n - 1)

\* 10000 * _elo_expected(ra, rb) to the nearest integer, from twice the two
\* ratings (the stored team ratings are halves): 1 / (1 + 10^((rb - ra)/400))
\* with the power of ten in 12-bit fixed point (exact when rb - ra is a
\* multiple of 400, within 0.0005 otherwise).
_elo_expected(ra2, rb2) ==
    LET e == rb2 - ra2
        q == e \div 800
        m == Pow10Frac(e - 800 * q, 1, 4096)
    IN  IF q >= 5 THEN 0
        ELSE IF q >= 0 THEN RoundHalfEven(4096 * 10000, 4096 + Pow10(q) * m)
        ELSE IF q <= 0 - 6 THEN 10000
        ELSE 10000 - RoundHalfEven(m * 10000, m + 4096 * Pow10(0 - q))

\* _score_multiplier as the fraction num / den.
_score_multiplier(total_a, total_b, sets_won_a, sets_won_b) ==
    LET margin == Abs(total_a - total_b)
        total == Max(1, total_a + total_b)
        sd == Abs(sets_won_a - sets_won_b)
        num == 10 * total + Min(6 * total, 20 * margin) + Min(2, sd) * total
    IN  [num |-> Min(18 * total, num), den |-> 10 * total]

\* The same factor for everyone.
k_ranked_for_all(p) == 25

_k_for_player(p) == IF is_unranked(p) THEN 50 ELSE 25

\* mmr_changes[uid] = int(round(delta)), delta = 25 * sf * (sA - ea) * kp on
\* team A and its negation on team B.
MmrChange(p, on_team_a, winner, sf, ea4) ==
    LET sA4 == IF winner = "A" THEN 10000 ELSE 0
        kp == _k_for_player(p) \div 25
        num == 25 * sf.num * (sA4 - ea4) * kp
    IN  RoundHalfEven(IF on_team_a THEN num ELSE 0 - num, sf.den * 10000)

\* A participant after a counted match whose calibration counters go on
\* counting after the ten games.
PlayerAfterCountsOn(p, won_match, mine, theirs, won, lost, delta) ==
    [p EXCEPT !.points_for = @ + mine, !.points_against = @ + theirs,
              !.sets_w = @ + won, !.sets_l = @ + lost,
              !.match_w = IF won_match THEN @ + 1 ELSE @,
              !.match_l = IF won_match THEN @ ELSE @ + 1,
              !.cur_streak = IF won_match THEN @ + 1 ELSE 0,
              !.best_streak = IF won_match THEN Max(@, p.cur_streak + 1) ELSE @,
              !.mmr = @ + delta,
              !.calib_played = @ + 1,
              !.calib_wins = IF won_match THEN @ + 1 ELSE @,
              !.calib_losses = IF ~won_match THEN @ + 1 ELSE @,
              !.calib_streak = IF won_match THEN @ + 1 ELSE 0]

\* A participant after a counted match: statistics, rating change, and the
\* calibration counters while unranked.
PlayerAfter(p, won_match, mine, theirs, won, lost, delta) ==
    [p EXCEPT !.points_for = @ + mine, !.points_against = @ + theirs,
              !.sets_w = @ + won, !.sets_l = @ + lost,
              !.match_w = IF won_match THEN @ + 1 ELSE @,
              !.match_l = IF won_match THEN @ ELSE @ + 1,
              !.cur_streak = IF won_match THEN @ + 1 ELSE 0,
              !.best_streak = IF won_match THEN Max(@, p.cur_streak + 1) ELSE @,
              !.mmr = @ + delta,
              !.calib_played = IF is_unranked(p) THEN @ + 1 ELSE @,
              !.calib_wins = IF is_unranked(p) /\ won_match THEN @ + 1 ELSE @,
              !.calib_losses = IF is_unranked(p) /\ ~won_match THEN @ + 1 ELSE @,
              !.calib_streak = IF ~is_unranked(p) THEN @
                               ELSE IF won_match THEN @ + 1 ELSE 0]

MmrChanges(db, teamA, teamB, winner, sf, ea4) ==
    [uid \in teamA \cup teamB |->
        MmrChange(db.players[uid], uid \in teamA, winner, sf, ea4)]

ApplyCounted(db, teamA, teamB, res, mmr_changes, ea4) ==
    [ok |-> TRUE,
     db |-> [db EXCEPT !.players = [u \in DOMAIN @ |->
               IF u \in teamA
               THEN PlayerAfter(@[u], res.winner = "A", res.total_points_a,
                                res.total_points_b, res.sets_won_a, res.sets_won_b,
                                mmr_changes[u])
               ELSE IF u \in teamB
               THEN PlayerAfter(@[u], res.winner = "B", res.total_points_b,
                                res.total_points_a, res.sets_won_b, res.sets_won_a,
                                mmr_changes[u])
               ELSE @[u]]],
     winner |-> res.winner, mmr_changes |-> mmr_changes,
     set_scores |-> res.clean, expected_a |-> ea4]

ApplyResult(db, teamA, teamB, res, ea4) ==
    IF ~res.ok THEN [ok |-> FALSE, msg |-> res.msg]
    ELSE ApplyCounted(db, teamA, teamB, res,
                      MmrChanges(db, teamA, teamB, res.winner,
                                 _score_multiplier(res.total_points_a, res.total_points_b,
                                                   res.sets_won_a, res.sets_won_b),
                                 ea4),
                      ea4)

\* _apply_match_results: [ok |-> FALSE] when the scores are rejected (nothing
\* is changed), else the players after the statistics, the rating changes and
\* the calibration counters are applied, and the result.
_apply_match_results(db, match_state, set_scores) ==
    ApplyResult(db, SeqRange(match_state.team_a_ids), SeqRange(match_state.team_b_ids),
                _winner_from_sets(set_scores, scoring.bo, scoring.points, scoring.cap),
                _elo_expected(match_state.team_mmr_a2, match_state.team_mmr_b2))

\* _recompute_avg_match_minutes over the history (newest first).
_recompute_avg_match_minutes(history) ==
    LET items == SubSeq(history, 1, Min(10, Len(history)))
        total == SumSeq([i \in DOMAIN items |-> items[i].duration_sec])
        den == 60 * Len(items)
    IN  IF items = <<>> THEN DEFAULT_AVG_MATCH_MINUTES
        ELSE IF total < 6 * den THEN 6
        ELSE IF total > 30 * den THEN 30
        ELSE RoundHalfEven(total, den)
\* The recommendation without the clamp to 0..25.
cooldown_unclamped(db, avg) ==
    LET active == Cardinality({u \in DOMAIN db.players :
                                 db.players[u].status \in {"queue", "resting", "playing"}})
        denom == Max(1, total_courts * 4)
    IN  IF active <= denom THEN 0
        ELSE IF 5 * active >= 9 * denom THEN RoundHalfEven(9 * avg, 5)
        ELSE RoundHalfEven(avg * active, denom)

\* _cooldown_minutes from the players as they are when it is called.
_cooldown_minutes(db, avg) ==
    LET active == Cardinality({u \in DOMAIN db.players :
                                 db.players[u].status \in {"queue", "resting", "playing"}})
        denom == Max(1, total_courts * 4)
        cd == IF 5 * active >= 9 * denom THEN RoundHalfEven(9 * avg, 5)
              ELSE RoundHalfEven(avg * active, denom)
    IN  IF active <= denom THEN 0 ELSE Max(0, Min(25, cd))

\* _refresh_courts for a new court count: courts 1..total exist, the others
\* are dropped with whatever they hold.
_refresh_courts(cs, total) ==
    [c \in 1..total |-> IF c \in DOMAIN cs THEN cs[c] ELSE NoMatch]

RefreshAutomatch(am, total) ==
    [c \in 1..total |-> IF c \in DOMAIN am THEN am[c] ELSE FALSE]

(* ------------------------------ requests ------------------------------- *)
\* The instants at which the clock is read: the start of the evening, and a
\* time past the report window and the GROUP4_HARD_BAN_SEC of a match formed
\* at the start.
Instants == {100, 760}

\* Who sends requests: the super admin and the registered players.
Callers == {SUPER_ADMIN_ID} \cup Roster

\* The handler stores db and answers with the response r.
Commit(db, r) ==
    /\ db.formed <= MaxMatches
    /\ players' = db.players
    /\ courts' = db.courts
    /\ automatch' = db.automatch
    /\ avoid_4' = db.avoid_4
    /\ recent_teammates' = db.recent_teammates
    /\ recent_opponents' = db.recent_opponents
    /\ formed' = db.formed
    /\ resp' = r

\* The handler returns the error with the status code before it changes
\* anything.
RejectWith(code, error) ==
    /\ resp' = [code |-> code, changed |-> FALSE, error |-> error]
    /\ UNCHANGED <<now, players, courts, session_active, total_courts, scoring,
                   automatch, avoid_4, recent_teammates, recent_opponents,
                   avg_match_minutes, mod_ids, match_history, formed, probe, inflight, writeback>>

\* An error of a handler whose message no property tells apart.
Reject(code) == RejectWith(code, "error")

Ok(changed) == [code |-> 200, changed |-> changed, error |-> ""]

\* The clock moves on while a match is on a court.
Tick ==
    /\ \E c \in CourtIds : courts[c] /= NoMatch
    /\ \E t \in Instants : t > now /\ now' = t
    /\ UNCHANGED <<players, courts, session_active, total_courts, scoring, automatch,
                   avoid_4, recent_teammates, recent_opponents, avg_match_minutes,
                   mod_ids, match_history, formed, resp, probe, inflight, writeback>>

\* A check-out that clears the leaving player's own record only.
LeaveOwnSideOnly(ps, uid) ==
    [ps EXCEPT ![uid].paired_with = None, ![uid].outgoing_req = None,
               ![uid].incoming_reqs = SelectSeq(@, LAMBDA x : x /= uid)]

\* uid takes itself out of every pairing and request (the check-out branch of
\* toggle_status).
LeavePairing(ps, uid) ==
    [u \in DOMAIN ps |->
        IF u = uid
        THEN [ps[u] EXCEPT !.paired_with = None, !.outgoing_req = None,
                           !.incoming_reqs = SelectSeq(@, LAMBDA x : x /= uid)]
        ELSE [ps[u] EXCEPT
                !.paired_with = IF u = ps[uid].paired_with THEN None ELSE @,
                !.incoming_reqs = SelectSeq(@, LAMBDA x : x /= uid)]]

toggle_status(uid) ==
    IF uid \notin Roster THEN Reject(404)
    ELSE IF ~session_active THEN Reject(400)
    ELSE IF players[uid].status = "playing" THEN Reject(400)
    ELSE /\ players' =
              IF players[uid].status = "offline"
              THEN [players EXCEPT ![uid].status = "queue", ![uid].queue_join_ts = now,
                                   ![uid].cooldown_until = 0]
              ELSE LeavePairing([players EXCEPT ![uid].status = "offline",
                                                ![uid].queue_join_ts = 0,
                                                ![uid].cooldown_until = 0], uid)
         /\ resp' = Ok(FALSE)
         /\ UNCHANGED <<now, courts, session_active, total_courts, scoring, automatch,
                        avoid_4, recent_teammates, recent_opponents, avg_match_minutes,
                        mod_ids, match_history, formed, probe, inflight, writeback>>

\* toggle_rest without the check of the status.
toggle_rest_any(uid) ==
    IF uid \notin Roster THEN Reject(404)
    ELSE /\ players' = [players EXCEPT ![uid].status =
                                         IF @ = "queue" THEN "resting" ELSE "queue"]
         /\ resp' = Ok(FALSE)
         /\ UNCHANGED <<now, courts, session_active, total_courts, scoring, automatch,
                        avoid_4, recent_teammates, recent_opponents, avg_match_minutes,
                        mod_ids, match_history, formed, probe, inflight, writeback>>

toggle_rest(uid) ==
    IF uid \notin Roster THEN Reject(404)
    ELSE IF players[uid].status \notin {"queue", "resting"} THEN Reject(400)
    ELSE /\ players' = [players EXCEPT ![uid].status =
                                         IF @ = "queue" THEN "resting" ELSE "queue"]
         /\ resp' = Ok(FALSE)
         /\ UNCHANGED <<now, courts, session_active, total_courts, scoring, automatch,
                        avoid_4, recent_teammates, recent_opponents, avg_match_minutes,
                        mod_ids, match_history, formed, probe, inflight, writeback>>

toggle_auto_rest(uid, val) ==
    IF uid \notin Roster THEN Reject(404)
    ELSE /\ players' = [players EXCEPT ![uid].auto_rest = val]
         /\ resp' = Ok(FALSE)
         /\ UNCHANGED <<now, courts, session_active, total_courts, scoring, automatch,
                        avoid_4, recent_teammates, recent_opponents, avg_match_minutes,
                        mod_ids, match_history, formed, probe, inflight, writeback>>

\* matchmake: court_id = None is a request without a courtId.
matchmake(court_id) ==
    IF ~session_active THEN Reject(400)
    ELSE /\ \E r \in (IF court_id /= None
                      THEN IF ~CourtEmpty(Db, court_id)
                           THEN {[db |-> Db, changed |-> FALSE]}
                           ELSE {IF o.pick = NoPick
                                 THEN [db |-> o.db, changed |-> FALSE]
                                 ELSE [db |-> _create_match_on_court(
                                                 o.db, court_id, o.pick.teamA,
                                                 o.pick.teamB, "manual_button"),
                                       changed |-> TRUE]
                                 : o \in _choose_four_for_court(Db)}
                      ELSE FillFrom(Db, IdSeq(CourtIds), 1, "manual_button")) :
                Commit(r.db, Ok(r.changed))
         /\ UNCHANGED <<now, session_active, total_courts, scoring, avg_match_minutes,
                        mod_ids, match_history, probe, inflight, writeback>>

\* try_fill of matchmake as thread t runs it, up to the return of
\* _choose_four_for_court: the court is seen empty and four players are
\* picked (the ledger is cleaned and the priority flags are cleared in the
\* shared database), the match is not stored yet.
try_fill_read(t, court_id) ==
    /\ session_active
    /\ inflight[t] = Idle
    /\ court_id \in CourtIds
    /\ CourtEmpty(Db, court_id)
    /\ \E o \in _choose_four_for_court(Db) :
          /\ o.pick /= NoPick
          /\ Commit(o.db, resp)
          /\ inflight' = [inflight EXCEPT ![t] =
                             [pc |-> "picked", court_id |-> court_id,
                              teamA |-> o.pick.teamA, teamB |-> o.pick.teamB]]
    /\ UNCHANGED <<now, session_active, total_courts, scoring, avg_match_minutes,
                   mod_ids, match_history, probe, writeback>>

\* The rest of try_fill in thread t: _create_match_on_court with the four
\* players picked earlier, on the database as it is by now.
try_fill_write(t) ==
    /\ inflight[t].pc = "picked"
    /\ Commit(_create_match_on_court(Db, inflight[t].court_id, inflight[t].teamA,
                                     inflight[t].teamB, "manual_button"),
              Ok(TRUE))
    /\ inflight' = [inflight EXCEPT ![t] = Idle]
    /\ UNCHANGED <<now, session_active, total_courts, scoring, avg_match_minutes,
                   mod_ids, match_history, probe, writeback>>

manual_matchmake(uid, cid, pids) ==
    IF ~IsStaff(uid) THEN Reject(403)
    ELSE IF cid \notin CourtIds THEN Reject(400)
    ELSE IF courts[cid] /= NoMatch THEN RejectWith(400, "Court full")
    ELSE IF Len(pids) /= 4 \/ Cardinality(SeqRange(pids)) /= 4
         THEN Reject(400)
    ELSE IF ~(SeqRange(pids) \subseteq Roster) THEN Reject(400)
    ELSE /\ Commit(_create_match_on_court(Db, cid, SubSeq(pids, 1, 2), SubSeq(pids, 3, 4),
                                          "manual_admin"),
                   Ok(TRUE))
         /\ UNCHANGED <<now, session_active, total_courts, scoring, avg_match_minutes,
                        mod_ids, match_history, probe, inflight, writeback>>

\* Any registered player passes for a participant.
InRoster(uid, state) == uid \in Roster

InMatch(uid, state) ==
    uid \in SeqRange(state.team_a_ids) \cup SeqRange(state.team_b_ids)

cancel_match(uid, cid) ==
    IF cid \notin CourtIds THEN Reject(400)
    ELSE IF courts[cid] = NoMatch THEN Reject(400)
    ELSE IF ~(IsStaff(uid) \/ InMatch(uid, courts[cid])) THEN Reject(403)
    ELSE LET state == courts[cid]
             four == state.team_a_ids \o state.team_b_ids
             db1 == [Db EXCEPT
                       !.avoid_4 = Append(@, [sig |-> _group4_sig(four), ts |-> now,
                                              kind |-> "cancelled"]),
                       !.players = [u \in DOMAIN @ |->
                                      IF u \in SeqRange(four)
                                      THEN [@[u] EXCEPT !.status = "queue",
                                                        !.queue_join_ts = now,
                                                        !.cooldown_until = 0]
                                      ELSE @[u]],
                       !.courts = [@ EXCEPT ![cid] = NoMatch]]
         IN  /\ \E r \in _maybe_run_automatch(db1) :
                    Commit(r.db, Ok(r.changed))
             /\ UNCHANGED <<now, session_active, total_courts, scoring,
                            avg_match_minutes, mod_ids, match_history, probe, inflight, writeback>>

\* Everybody goes back to the queue, whatever the auto-rest flag says.
RequeueNoRest(ps, four, cd_sec) ==
    [u \in DOMAIN ps |->
        IF u \in four
        THEN [ps[u] EXCEPT !.queue_join_ts = now, !.status = "queue",
                           !.cooldown_until = 0]
        ELSE ps[u]]

\* The participants go back to the queue, or rest for the cooldown.
Requeue(ps, four, cd_sec) ==
    [u \in DOMAIN ps |->
        IF u \notin four THEN ps[u]
        ELSE IF ps[u].auto_rest /\ cd_sec > 0
        THEN [ps[u] EXCEPT !.queue_join_ts = now, !.status = "resting",
                           !.cooldown_until = now + cd_sec]
        ELSE [ps[u] EXCEPT !.queue_join_ts = now, !.status = "queue",
                           !.cooldown_until = 0]]

MatchRecord(cid, state, result) ==
    [court_id |-> cid, created_at |-> state.created_at,
     start_at |-> state.start_at, end_at |-> now,
     duration_sec |-> Max(0, now - state.start_at),
     team_a_ids |-> state.team_a_ids, team_b_ids |-> state.team_b_ids,
     winner |-> result.winner, set_scores |-> result.set_scores,
     mmr_changes |-> result.mmr_changes, expected_a |-> result.expected_a]

\* submit_match once the result is counted: history, average duration,
\* cooldown, the court freed and the automatch run.
SubmitCounted(cid, four, db, history, avg) ==
    /\ match_history' = history
    /\ avg_match_minutes' = avg
    /\ \E r \in _maybe_run_automatch(
                    [db EXCEPT !.players = Requeue(@, four, _cooldown_minutes(db, avg) * 60),
                               !.courts = [@ EXCEPT ![cid] = NoMatch]]) :
           Commit(r.db, Ok(r.changed))
    /\ UNCHANGED <<now, session_active, total_courts, scoring, mod_ids, probe, inflight, writeback>>

\* submit_match that frees the court before it looks at the result.
SubmitFreesCourtFirst(cid, state, result) ==
    IF ~result.ok
    THEN /\ courts' = [courts EXCEPT ![cid] = NoMatch]
         /\ resp' = [code |-> 400, changed |-> FALSE, error |-> result.msg]
         /\ UNCHANGED <<now, players, session_active, total_courts, scoring, automatch,
                        avoid_4, recent_teammates, recent_opponents, avg_match_minutes,
                        mod_ids, match_history, formed, probe, inflight, writeback>>
    ELSE SubmitCounted(cid, SeqRange(state.team_a_ids \o state.team_b_ids), result.db,
                       <<MatchRecord(cid, state, result)>> \o match_history,
                       _recompute_avg_match_minutes(
                           <<MatchRecord(cid, state, result)>> \o match_history))

SubmitResult(cid, state, result) ==
    IF ~result.ok THEN RejectWith(400, result.msg)
    ELSE SubmitCounted(cid, SeqRange(state.team_a_ids \o state.team_b_ids), result.db,
                       <<MatchRecord(cid, state, result)>> \o match_history,
                       _recompute_avg_match_minutes(
                           <<MatchRecord(cid, state, result)>> \o match_history))

submit_match(uid, cid, set_scores) ==
    IF cid \notin CourtIds THEN Reject(400)
    ELSE IF courts[cid] = NoMatch THEN Reject(400)
    ELSE IF ~(IsStaff(uid) \/ InMatch(uid, courts[cid])) THEN Reject(403)
    ELSE SubmitResult(cid, courts[cid], _apply_match_results(Db, courts[cid], set_scores))

\* get_dashboard: the automatch run of a dashboard poll (no scheduled event
\* exists, so the automatic start and end of a session do nothing).
get_dashboard ==
    /\ \E r \in _maybe_run_automatch(Db) : Commit(r.db, Ok(r.changed))
    /\ UNCHANGED <<now, session_active, total_courts, scoring, avg_match_minutes,
                   mod_ids, match_history, probe, inflight, writeback>>

admin_toggle_session(uid, action, points, bo) ==
    IF ~IsStaff(uid) THEN Reject(403)
    ELSE IF action \notin {"start", "end"} THEN Reject(400)
    ELSE /\ IF action = "start"
            THEN /\ session_active' = TRUE
                 /\ scoring' = [points |-> IF points \in {11, 21} THEN points ELSE 21,
                                bo |-> IF bo \in {1, 2, 3} THEN bo ELSE 1,
                                cap |-> SCORE_CAP]
                 /\ UNCHANGED <<players, courts>>
            ELSE /\ session_active' = FALSE
                 /\ courts' = [c \in CourtIds |-> NoMatch]
                 /\ players' = [u \in Roster |->
                        [players[u] EXCEPT !.status = "offline", !.queue_join_ts = 0,
                                           !.cooldown_until = 0, !.paired_with = None,
                                           !.outgoing_req = None, !.incoming_reqs = <<>>,
                                           !.priority_match = FALSE]]
                 /\ UNCHANGED scoring
         /\ resp' = Ok(FALSE)
         /\ UNCHANGED <<now, total_courts, automatch, avoid_4, recent_teammates,
                        recent_opponents, avg_match_minutes, mod_ids, match_history,
                        formed, probe, inflight, writeback>>

admin_update_courts(uid, count) ==
    IF ~IsStaff(uid) THEN Reject(403)
    ELSE LET c == Max(1, Min(10, count))
         IN  /\ total_courts' = c
             /\ courts' = _refresh_courts(courts, c)
             /\ automatch' = RefreshAutomatch(automatch, c)
             /\ resp' = Ok(FALSE)
             /\ UNCHANGED <<now, players, session_active, scoring, avoid_4,
                            recent_teammates, recent_opponents, avg_match_minutes,
                            mod_ids, match_history, formed, probe, inflight, writeback>>

admin_set_automatch(uid, cid, val) ==
    IF ~IsStaff(uid) THEN Reject(403)
    ELSE IF cid \notin DOMAIN automatch THEN Reject(400)
    ELSE LET db1 == [Db EXCEPT !.automatch = [@ EXCEPT ![cid] = val]]
         IN  /\ \E r \in (IF val /\ CourtEmpty(db1, cid)
                          THEN _maybe_run_automatch(db1)
                          ELSE {[db |-> db1, changed |-> FALSE]}) :
                    Commit(r.db, Ok(r.changed))
             /\ UNCHANGED <<now, session_active, total_courts, scoring,
                            avg_match_minutes, mod_ids, match_history, probe, inflight, writeback>>

\* admin_manage_mod: the super admin promotes a player to moderator or demotes
\* one (mod_ids is kept as a set).
admin_manage_mod(uid, tid, action) ==
    IF uid /= SUPER_ADMIN_ID THEN Reject(403)
    ELSE IF tid \notin Roster THEN Reject(404)
    ELSE IF action \notin {"promote", "demote"} THEN Reject(400)
    ELSE /\ mod_ids' = IF action = "promote" THEN mod_ids \cup {tid}
                       ELSE mod_ids \ {tid}
         /\ resp' = Ok(FALSE)
         /\ UNCHANGED <<now, players, courts, session_active, total_courts, scoring,
                        automatch, avoid_4, recent_teammates, recent_opponents,
                        avg_match_minutes, match_history, formed, probe, inflight, writeback>>

(* ------------------------------ partners ------------------------------- *)
\* uid is taken off the incoming requests of tgt (when tgt is a player).
DropIncoming(ps, tgt, uid) ==
    IF tgt \in DOMAIN ps
    THEN [ps EXCEPT ![tgt].incoming_reqs = SelectSeq(@, LAMBDA x : x /= uid)]
    ELSE ps

OnlyPlayers ==
    UNCHANGED <<now, courts, session_active, total_courts, scoring, automatch, avoid_4,
                recent_teammates, recent_opponents, avg_match_minutes, mod_ids,
                match_history, formed, probe, inflight, writeback>>

\* partner_request that asks even when the player is paired or has asked
\* somebody else.
partner_request_unguarded(uid, target) ==
    IF uid = target THEN Reject(400)
    ELSE IF uid \notin Roster \/ target \notin Roster THEN Reject(404)
    ELSE /\ players' =
              [players EXCEPT
                 ![target].incoming_reqs = IF uid \in SeqRange(@) THEN @ ELSE Append(@, uid),
                 ![uid].outgoing_req = target]
         /\ resp' = Ok(FALSE)
         /\ OnlyPlayers

partner_request(uid, target) ==
    IF uid = target THEN Reject(400)
    ELSE IF uid \notin Roster \/ target \notin Roster THEN Reject(404)
    ELSE IF players[uid].paired_with /= None THEN Reject(400)
    ELSE IF players[uid].outgoing_req \notin {None, target} THEN Reject(400)
    ELSE /\ players' =
              IF players[uid].outgoing_req = target THEN players
              ELSE [players EXCEPT
                      ![target].incoming_reqs =
                          IF uid \in SeqRange(@) THEN @ ELSE Append(@, uid),
                      ![uid].outgoing_req = target]
         /\ resp' = Ok(FALSE)
         /\ OnlyPlayers

partner_cancel_outgoing(uid) ==
    IF uid \notin Roster THEN Reject(404)
    ELSE /\ players' = [DropIncoming(players, players[uid].outgoing_req, uid)
                          EXCEPT ![uid].outgoing_req = None]
         /\ resp' = Ok(FALSE)
         /\ OnlyPlayers

\* The accept branch of partner_respond, statement by statement.
AcceptPartner(ps, uid, from_id) ==
    LET ps1 == [DropIncoming(ps, ps[uid].outgoing_req, uid)
                  EXCEPT ![uid].outgoing_req = None]
        ps2 == IF ps1[from_id].outgoing_req \notin {None, uid}
               THEN DropIncoming(ps1, ps1[from_id].outgoing_req, from_id)
               ELSE ps1
        ps3 == [ps2 EXCEPT ![from_id].outgoing_req = None]
        ps4 == [ps3 EXCEPT ![uid].paired_with = from_id]
        ps5 == [ps4 EXCEPT ![from_id].paired_with = uid]
    IN  [ps5 EXCEPT ![uid].incoming_reqs = SelectSeq(@, LAMBDA x : x /= from_id)]

\* A decline that strikes the request from the list and leaves the sender's
\* outgoing request standing.
DeclineListOnly(ps, uid, from_id) ==
    [ps EXCEPT ![uid].incoming_reqs = SelectSeq(@, LAMBDA x : x /= from_id)]

DeclinePartner(ps, uid, from_id) ==
    LET ps1 == [ps EXCEPT ![uid].incoming_reqs = SelectSeq(@, LAMBDA x : x /= from_id)]
    IN  IF ps1[from_id].outgoing_req = uid
        THEN [ps1 EXCEPT ![from_id].outgoing_req = None]
        ELSE ps1

partner_respond(uid, from_id, action) ==
    IF action \notin {"accept", "decline"} THEN Reject(400)
    ELSE IF uid \notin Roster \/ from_id \notin Roster THEN Reject(404)
    ELSE IF action = "accept" /\ players[uid].paired_with /= None THEN Reject(400)
    ELSE IF action = "accept" /\ players[from_id].paired_with /= None THEN Reject(400)
    ELSE /\ players' = IF action = "accept" THEN AcceptPartner(players, uid, from_id)
                       ELSE DeclinePartner(players, uid, from_id)
         /\ resp' = Ok(FALSE)
         /\ OnlyPlayers

partner_unpair(uid) ==
    IF uid \notin Roster THEN Reject(404)
    ELSE /\ players' =
              LET other == players[uid].paired_with
                  ps1 == IF other \in Roster
                         THEN [players EXCEPT ![other].paired_with = None]
                         ELSE players
              IN  [ps1 EXCEPT ![uid].paired_with = None]
         /\ resp' = Ok(FALSE)
         /\ OnlyPlayers

(* --------------------------- the club evening -------------------------- *)
NoResp == [code |-> 200, changed |-> FALSE, error |-> ""]

\* The ratings of the registered players (set by admin_set_mmr): 1000, 1100, ...
InitMmr(u) == DEFAULT_MMR + 100 * (u - 1)

NoProbe == [kind |-> "none"]

DefaultScoring == [points |-> 21, bo |-> 1, cap |-> SCORE_CAP]

\* The database with the players ps, the default courts all empty, automatch
\* on the courts of am and an empty ledger.
BlankDb(ps, am) ==
    [players |-> ps, courts |-> [c \in 1..DEFAULT_TOTAL_COURTS |-> NoMatch],
     automatch |-> [c \in 1..DEFAULT_TOTAL_COURTS |-> c \in am],
     avoid_4 |-> <<>>, recent_teammates |-> <<>>, recent_opponents |-> <<>>,
     formed |-> 0]

\* The state at the instant 100 with the database db, the session on or off,
\* the scoring sc, the match history (with its average duration) and the
\* input pr waiting for the set validator.
Load(db, active, sc, history, avg, pr) ==
    /\ now = 100
    /\ players = db.players
    /\ courts = db.courts
    /\ session_active = active
    /\ total_courts = DEFAULT_TOTAL_COURTS
    /\ scoring = sc
    /\ automatch = db.automatch
    /\ avoid_4 = db.avoid_4
    /\ recent_teammates = db.recent_teammates
    /\ recent_opponents = db.recent_opponents
    /\ avg_match_minutes = avg
    /\ mod_ids = {}
    /\ match_history = history
    /\ formed = db.formed
    /\ resp = NoResp
    /\ probe = pr
    /\ inflight = [t \in Threads |-> Idle]
    /\ writeback = Synced

\* The default settings, no match played yet.
Fresh(ps, active, am) ==
    Load(BlankDb(ps, am), active, DefaultScoring, <<>>, DEFAULT_AVG_MATCH_MINUTES,
         NoProbe)

\* admin_hard_reset: "all" puts the default database in place of the cache,
\* "stats" keeps the players and wipes their statistics, the history, the
\* courts and the ledger.
admin_hard_reset(uid, mode) ==
    IF uid /= SUPER_ADMIN_ID THEN Reject(403)
    ELSE IF mode = "all"
    THEN /\ players' = <<>>
         /\ courts' = [c \in 1..DEFAULT_TOTAL_COURTS |-> NoMatch]
         /\ automatch' = [c \in 1..DEFAULT_TOTAL_COURTS |-> FALSE]
         /\ session_active' = FALSE
         /\ total_courts' = DEFAULT_TOTAL_COURTS
         /\ scoring' = DefaultScoring
         /\ avoid_4' = <<>>
         /\ recent_teammates' = <<>>
         /\ recent_opponents' = <<>>
         /\ avg_match_minutes' = DEFAULT_AVG_MATCH_MINUTES
         /\ mod_ids' = {}
         /\ match_history' = <<>>
         /\ resp' = Ok(FALSE)
         /\ UNCHANGED <<now, formed, probe, inflight, writeback>>
    ELSE IF mode = "stats"
    THEN /\ players' = [u \in Roster |->
                [players[u] EXCEPT
                   !.mmr = 1000, !.calib_played = 0, !.calib_wins = 0,
                   !.calib_losses = 0, !.calib_streak = 0, !.sets_w = 0, !.sets_l = 0,
                   !.points_for = 0, !.points_against = 0, !.match_w = 0,
                   !.match_l = 0, !.best_streak = 0, !.cur_streak = 0,
                   !.status = "offline", !.queue_join_ts = 0, !.cooldown_until = 0,
                   !.priority_match = FALSE, !.paired_with = None,
                   !.outgoing_req = None, !.incoming_reqs = <<>>,
                   !.auto_rest = FALSE]]
         /\ match_history' = <<>>
         /\ courts' = <<>>
         /\ session_active' = FALSE
         /\ avoid_4' = <<>>
         /\ recent_teammates' = <<>>
         /\ recent_opponents' = <<>>
         /\ automatch' = <<>>
         /\ resp' = Ok(FALSE)
         /\ UNCHANGED <<now, total_courts, scoring, avg_match_minutes, mod_ids, formed,
                        probe, inflight, writeback>>
    ELSE Reject(400)

ClubPlayers(n) == [u \in 1..n |-> [NewPlayer EXCEPT !.mmr = InitMmr(u)]]

InitClub(n) == Fresh(ClubPlayers(n), FALSE, {})

Init == InitClub(NumPlayers)

\* The set scores a reporter sends in the club evening: one valid, one with
\* an invalid set, one with a set too many for a best of one.
ClubScores == {<<[a |-> 21, b |-> 15]>>, <<[a |-> 21, b |-> 20]>>,
               <<[a |-> 21, b |-> 15], [a |-> 21, b |-> 15]>>}

\* The court ids of the requests: the courts and one that does not exist.
CourtArgs == CourtIds \cup {DEFAULT_TOTAL_COURTS + 1}

\* The line-up a member of staff sends to manual_matchmake.
LineUps == {<<1, 2, 3, 4>>}

\* Who sends the staff requests and reports: the super admin and a player.
Senders == {SUPER_ADMIN_ID, 1}

Next ==
    \/ Tick
    \/ \E uid \in Callers : toggle_status(uid)
    \/ \E court_id \in CourtIds \cup {None} : matchmake(court_id)
    \/ \E uid \in Senders, cid \in CourtIds, pids \in LineUps :
          manual_matchmake(uid, cid, pids)
    \/ \E uid \in Senders, cid \in CourtArgs : cancel_match(uid, cid)
    \/ \E uid \in Senders, cid \in CourtArgs, set_scores \in ClubScores :
          submit_match(uid, cid, set_scores)
    \/ get_dashboard
    \/ \E uid \in Senders, action \in {"start", "end"} :
          admin_toggle_session(uid, action, 21, 1)
    \/ \E uid \in Senders, val \in BOOLEAN : admin_set_automatch(uid, 1, val)

Spec == Init /\ [][Next]_vars

(* ------------------------- claims: court machine ----------------------- *)
Participants(state) == SeqRange(state.team_a_ids) \cup SeqRange(state.team_b_ids)

\* The courts with a live match in which uid takes part.
CourtsOf(uid) == {c \in CourtIds : courts[c] /= NoMatch /\ uid \in Participants(courts[c])}

\* C1: in every reachable state each court holds at most one live match (a
\* court maps to one match state) and each player is a participant of at most
\* one court's live match.
C1_OneLiveMatchPerPlayer == \A uid \in Roster : Cardinality(CourtsOf(uid)) <= 1

\* A request cancel_match(uid, cid) that the handler accepts.
CancelAccepted(uid, cid) ==
    /\ cid \in CourtIds
    /\ courts[cid] /= NoMatch
    /\ IsStaff(uid) \/ InMatch(uid, courts[cid])
    /\ cancel_match(uid, cid)

\* C5: an accepted cancel_match leaves every participant with the
\* queue_join_ts it had before the match was formed (forming a match does not
\* write queue_join_ts, so that is the value it has while the match is live).
C5_CancelRestoresQueueSince ==
    [][\A uid \in Senders, cid \in CourtIds :
          CancelAccepted(uid, cid) =>
              \A u \in Participants(courts[cid]) \cap Roster :
                  players'[u].queue_join_ts = players[u].queue_join_ts]_vars

\* The courts on which the step puts a match picked by the selector.
FormedBySelector ==
    {c \in DOMAIN courts' :
        /\ courts'[c] /= NoMatch
        /\ courts'[c].reason \in {"automatch", "manual_button"}
        /\ c \notin CourtIds \/ courts'[c] /= courts[c]}

\* A cancelled entry of the four of the match, at most GROUP4_HARD_BAN_SEC old.
CancelledWithinBan(ledger, state, t) ==
    \E i \in DOMAIN ledger :
        /\ ledger[i].kind = "cancelled"
        /\ ledger[i].sig = _group4_sig(state.team_a_ids \o state.team_b_ids)
        /\ t - ledger[i].ts <= GROUP4_HARD_BAN_SEC

\* C6: the selector never forms a match of the same four players while a
\* cancelled ledger entry of these four is within GROUP4_HARD_BAN_SEC.
C6_NoReformWithinBan ==
    [][\A c \in FormedBySelector : ~CancelledWithinBan(avoid_4', courts'[c], now')]_vars

(* ------------------------- a full waiting queue ------------------------ *)
\* The evening with NumPool players in the queue, more than one court takes:
\* the session is on, court 1 is on automatch, the ratings are as the admin
\* set them and every player checked in at 40 or at 100.
PoolMmr == {<<3000, 1000, 1000, 1000, 1000>>,
            <<1500, 1002, 1000, 1000, 3000>>,
            <<1000, 1100, 1200, 1300, 1400>>}

PoolJoin == {<<40, 100, 100, 100, 100>>,
             <<40, 40, 40, 40, 40>>,
             <<100, 100, 100, 100, 40>>}

InitPool ==
    \E mmr \in PoolMmr, ts \in PoolJoin :
        Fresh([u \in 1..NumPool |->
                 [NewPlayer EXCEPT !.status = "queue",
                                   !.mmr = mmr[((u - 1) % Len(mmr)) + 1],
                                   !.queue_join_ts = ts[((u - 1) % Len(ts)) + 1]]],
              TRUE, {1})

NextPool ==
    \/ Tick
    \/ get_dashboard
    \/ matchmake(2)
    \/ \E uid \in Senders, cid \in CourtArgs : cancel_match(uid, cid)
    \/ \E uid \in Senders, cid \in CourtArgs, set_scores \in ClubScores :
          submit_match(uid, cid, set_scores)
    \/ \E action \in {"promote", "demote"} : admin_manage_mod(SUPER_ADMIN_ID, 1, action)

SpecPool == InitPool /\ [][NextPool]_vars

(* --------------------------- claims: selector -------------------------- *)
\* The members of the eligible units with the smallest queue_join_ts.
OldestUnits(db) ==
    {SeqRange(u.members) :
        u \in {x \in SeqRange(_pair_units(db, _eligible_players(db))) :
                 \A y \in SeqRange(_pair_units(db, _eligible_players(db))) : x.ts <= y.ts}}

\* C3: whenever _choose_four_for_court returns a match, the four include every
\* member of the eligible unit with the smallest queue_join_ts.
C3_OldestUnitSelected ==
    \A o \in _choose_four_for_court(Db) :
        o.pick /= NoPick => \E m \in OldestUnits(Db) : m \subseteq SeqRange(o.pick.combo)

\* The matches formed after uid joined the queue, live or settled, each named
\* by its court and creation time.
FormedSince(uid) ==
    {<<courts[c].court_id, courts[c].created_at>> :
        c \in {x \in CourtIds : /\ courts[x] /= NoMatch
                                /\ courts[x].created_at > players[uid].queue_join_ts}}
    \cup {<<match_history[i].court_id, match_history[i].created_at>> :
            i \in {j \in DOMAIN match_history :
                     match_history[j].created_at > players[uid].queue_join_ts}}

\* C4: no queued unit is starved.  With NumPool players in the queue a match
\* takes all but one of them, so the one left out is the oldest unit of the
\* next round: a player who stays eligible is selected before a second match
\* is formed without that player.
C4_NotPassedOverTwice ==
    \A uid \in Roster : Waiting(Db, uid) => Cardinality(FormedSince(uid)) < 2

\* C7: two calls of _maybe_run_automatch in succession, with nothing in
\* between: the second changes nothing and reports no change.
C7_AutomatchIdempotent ==
    \A r1 \in _maybe_run_automatch(Db) :
        \A r2 \in _maybe_run_automatch(r1.db) : r2.db = r1.db /\ ~r2.changed

(* --------------------------- committed pairs --------------------------- *)
\* The evening of the committed pairs: the session is on and everybody is in
\* the queue since 100.  Players 1 to 3 send and answer the partner requests.
InitPairs ==
    Fresh([u \in 1..NumPlayers |->
             [NewPlayer EXCEPT !.status = "queue", !.mmr = InitMmr(u),
                               !.queue_join_ts = 100]],
          TRUE, {})

Suitors == {1, 2, 3}

\* The line-ups a member of staff sends: 1 with 2, and 1 against 2.
PairLineUps == {<<1, 2, 3, 4>>, <<1, 3, 2, 4>>}

NextPairs ==
    \/ \E uid \in Suitors, target \in Suitors : partner_request(uid, target)
    \/ \E uid \in Suitors : partner_cancel_outgoing(uid)
    \/ \E uid \in Suitors, from_id \in Suitors, action \in {"accept", "decline"} :
          partner_respond(uid, from_id, action)
    \/ \E uid \in Suitors : partner_unpair(uid)
    \/ toggle_status(1)
    \/ matchmake(1)
    \/ \E uid \in Senders, pids \in PairLineUps : manual_matchmake(uid, 1, pids)
    \/ \E uid \in Senders : cancel_match(uid, 1)

SpecPairs == InitPairs /\ [][NextPairs]_vars

\* The courts on which the step puts a match.
FormedNow ==
    {c \in DOMAIN courts' :
        courts'[c] /= NoMatch /\ (c \notin CourtIds \/ courts'[c] /= courts[c])}

Committed(ps, a, b) == a /= b /\ ps[a].paired_with = b /\ ps[b].paired_with = a

SameTeam(state, a, b) ==
    \/ {a, b} \subseteq SeqRange(state.team_a_ids)
    \/ {a, b} \subseteq SeqRange(state.team_b_ids)

\* C2: in every match that is formed, by the selector or by manual_matchmake,
\* two participants who are mutually committed are on the same team.
C2_CommittedPairSameTeam ==
    [][\A c \in FormedNow :
          \A a \in Participants(courts'[c]), b \in Participants(courts'[c]) :
              Committed(players', a, b) => SameTeam(courts'[c], a, b)]_vars

(* --------------------------- set validation ---------------------------- *)
\* The scores of a set arrive with the configured target; the handler's
\* validation step answers with _validate_set_score at the cap of the club.
validate_set(a, b, points) ==
    /\ probe = [kind |-> "input", a |-> a, b |-> b, points |-> points]
    /\ probe' = [kind |-> "set", a |-> a, b |-> b, points |-> points,
                 ok |-> _validate_set_score(a, b, points, SCORE_CAP)]
    /\ UNCHANGED <<now, players, courts, session_active, total_courts, scoring,
                   automatch, avoid_4, recent_teammates, recent_opponents,
                   avg_match_minutes, mod_ids, match_history, formed, resp,
                   inflight, writeback>>

Targets == {11, 21}

InitScore ==
    \E a \in 0..MaxScore, b \in 0..MaxScore, points \in Targets :
        Load(BlankDb(ClubPlayers(NumPlayers), {}), TRUE,
             [points |-> points, bo |-> 1, cap |-> SCORE_CAP], <<>>,
             DEFAULT_AVG_MATCH_MINUTES,
             [kind |-> "input", a |-> a, b |-> b, points |-> points])

NextScore == \E a \in 0..MaxScore, b \in 0..MaxScore, points \in Targets :
                 validate_set(a, b, points)

SpecScore == InitScore /\ [][NextScore]_vars

\* The rule as the claim states it: the winner reaches the target, wins by
\* two or is at the cap, and at the cap the loser has cap - 1.
AcceptedAsClaimed(a, b, points, cap) ==
    /\ Max(a, b) >= points
    /\ Max(a, b) - Min(a, b) >= 2 \/ Max(a, b) = cap
    /\ Max(a, b) = cap => Min(a, b) = cap - 1

\* The rule of the code: below the cap the winner wins by two; at the cap the
\* loser has cap - 1 or cap - 2; nobody scores above the cap.
AcceptedAmended(a, b, points, cap) ==
    /\ Max(a, b) >= points
    /\ \/ Max(a, b) < cap /\ Max(a, b) - Min(a, b) >= 2
       \/ Max(a, b) = cap /\ Min(a, b) \in {cap - 1, cap - 2}

\* C8 (as claimed): _validate_set_score accepts a set iff the winner's score
\* is at least the target and (the margin is at least 2 or the winner is at
\* the cap), with the loser at cap - 1 whenever the winner is at the cap.
C8_ValidateAsClaimed ==
    probe.kind = "set" =>
        (probe.ok <=> AcceptedAsClaimed(probe.a, probe.b, probe.points, SCORE_CAP))

\* C8 (amended): _validate_set_score accepts a set iff the winner's score is
\* at least the target and either it is below the cap with a margin of at
\* least 2, or it is the cap and the loser has cap - 1 or cap - 2.
C8_ValidateAmended ==
    probe.kind = "set" =>
        (probe.ok <=> AcceptedAmended(probe.a, probe.b, probe.points, SCORE_CAP))

\* 30-28 was put to the validator and accepted.
C8_Witness ==
    probe.kind = "set" /\ probe.a = SCORE_CAP /\ probe.b = SCORE_CAP - 2 /\ probe.ok

(* --------------------------- rating of a match ------------------------- *)
\* Ten calibration games of 1, 2 against 3, 4, all at 21-15 in a best of one
\* and won in turn (the oldest by 3, 4), newest first: the rating change of
\* 3 and 4 and 10000 * expected_a of each, as the rating engine gave them from
\* four players at DEFAULT_MMR.
OldChanges == <<-52, 49, -53, 48, -54, 46, -55, 44, -57, 36>>
OldExpected == <<2755, 6788, 2664, 6661, 2531, 6454, 2340, 6159, 2083, 5000>>

\* Game i of the ten (1 the newest), played the day before at a quarter of an
\* hour's distance, ten minutes each.
OldMatch(i) ==
    LET created == 0 - 86400 - 900 * i
        a_won == OldChanges[i] < 0
    IN  [court_id |-> 1, created_at |-> created,
         start_at |-> created + REPORT_WINDOW_SEC,
         end_at |-> created + REPORT_WINDOW_SEC + 600, duration_sec |-> 600,
         team_a_ids |-> <<1, 2>>, team_b_ids |-> <<3, 4>>,
         winner |-> IF a_won THEN "A" ELSE "B",
         set_scores |-> IF a_won THEN <<[a |-> 21, b |-> 15]>>
                        ELSE <<[a |-> 15, b |-> 21]>>,
         mmr_changes |-> [u \in 1..4 |-> IF u <= 2 THEN 0 - OldChanges[i]
                                         ELSE OldChanges[i]],
         expected_a |-> OldExpected[i]]

OldMatches == [i \in 1..Len(OldChanges) |-> OldMatch(i)]

\* A player after the ten games (five won), checked in at the instant 100,
\* with the rating an administrator set since (admin_set_mmr).
Veteran(u, mmr) ==
    [NewPlayer EXCEPT !.status = "queue", !.queue_join_ts = 100, !.mmr = mmr,
                      !.calib_played = CALIB_GAMES, !.calib_wins = 5,
                      !.calib_losses = 5,
                      !.calib_streak = IF u <= 2 THEN 1 ELSE 0,
                      !.sets_w = 5, !.sets_l = 5,
                      !.points_for = 180, !.points_against = 180,
                      !.match_w = 5, !.match_l = 5, !.best_streak = 1,
                      !.cur_streak = IF u <= 2 THEN 1 ELSE 0]

\* A player who has not played yet, checked in at the instant 100.
Newcomer(mmr) ==
    [NewPlayer EXCEPT !.status = "queue", !.queue_join_ts = 100, !.mmr = mmr]

\* The ratings of players 1..4 of a rated match: level, a heavy favourite on
\* either side, and two uneven line-ups.
RatingRows == {<<1000, 1000, 1000, 1000>>, <<1800, 1800, 1000, 1000>>,
               <<1000, 1000, 1800, 1800>>, <<1100, 1000, 1000, 1050>>,
               <<1400, 1200, 1000, 1000>>}

\* The set scores reported for it: best-of-one and best-of-three results.
\* MmrChange is exact arithmetic; with these scores and RatingRows the product
\* 25 * sf * (sA - ea) * kp of the floating-point code rounds to the same
\* integer (it is a tie only at 22.5, which the floats hit exactly).
RatingScores ==
    {<<[a |-> 21, b |-> 15]>>, <<[a |-> 15, b |-> 21]>>, <<[a |-> 21, b |-> 12]>>,
     <<[a |-> 29, b |-> 30]>>,
     <<[a |-> 21, b |-> 5], [a |-> 21, b |-> 5]>>,
     <<[a |-> 5, b |-> 21], [a |-> 5, b |-> 21]>>,
     <<[a |-> 21, b |-> 19], [a |-> 19, b |-> 21], [a |-> 21, b |-> 19]>>}

\* A session with 1, 2 against 3, 4 on court 1 (manual_matchmake at the
\* instant 100), the four either veterans of the ten games or newcomers.
InitRating ==
    \E mmr \in RatingRows, veterans \in BOOLEAN, bo \in {1, 3} :
        Load(_create_match_on_court(
                 BlankDb([u \in 1..4 |-> IF veterans THEN Veteran(u, mmr[u])
                                         ELSE Newcomer(mmr[u])], {}),
                 1, <<1, 2>>, <<3, 4>>, "manual_admin"),
             TRUE, [points |-> 21, bo |-> bo, cap |-> SCORE_CAP],
             IF veterans THEN OldMatches ELSE <<>>,
             IF veterans THEN 10 ELSE DEFAULT_AVG_MATCH_MINUTES, NoProbe)

NextRating ==
    \/ Tick
    \/ \E uid \in Senders, set_scores \in RatingScores : submit_match(uid, 1, set_scores)

SpecRating == InitRating /\ [][NextRating]_vars

\* A step that settles the match on court 1.
Settles == Len(match_history') = Len(match_history) + 1 /\ courts[1] /= NoMatch

TeamA == SeqRange(courts[1].team_a_ids)
TeamB == SeqRange(courts[1].team_b_ids)

\* The rating delta applied to a player by the step.
Applied(u) == players'[u].mmr - players[u].mmr

RECURSIVE SumApplied(_)
SumApplied(S) ==
    IF S = {} THEN 0
    ELSE LET u == CHOOSE x \in S : TRUE IN Applied(u) + SumApplied(S \ {u})

NoneCalibrating == \A u \in TeamA \cup TeamB : ~is_unranked(players[u])

EquallyRated == \A u, v \in TeamA \cup TeamB : players[u].mmr = players[v].mmr

\* C9: when a match is settled and none of the four participants is
\* calibrating, the sum of team A's rating deltas is the negative of the sum
\* of team B's; for four equally rated players every delta of team A is the
\* negative of every delta of team B.
C9_TeamDeltasSymmetric ==
    [][Settles /\ NoneCalibrating =>
          /\ SumApplied(TeamA) = 0 - SumApplied(TeamB)
          /\ EquallyRated =>
                 \A u \in TeamA, v \in TeamB : Applied(u) = 0 - Applied(v)]_vars

\* A match of four veterans was settled with 22 for each winner and -22 for
\* each loser (25 * 1.8 * 0.5 = 22.5 on either side before rounding).
C9_Witness ==
    /\ Len(match_history) = Len(OldMatches) + 1
    /\ match_history[1].mmr_changes = [u \in 1..4 |-> IF u <= 2 THEN 22 ELSE 0 - 22]
    /\ \A u \in 1..4 : players[u].mmr = 1000 + match_history[1].mmr_changes[u]

\* C10: when a match is settled, every winner's applied rating delta is at
\* least +1 and every loser's at most -1.
C10_DeltaFollowsOutcome ==
    [][Settles =>
          \A u \in TeamA \cup TeamB :
              IF (u \in TeamA) = (match_history'[1].winner = "A")
              THEN Applied(u) >= 1 ELSE Applied(u) <= 0 - 1]_vars

(* ----------------------- claims: errors and rights --------------------- *)
\* The step changes nothing of the database.
DbUnchanged ==
    UNCHANGED <<players, courts, session_active, total_courts, scoring, automatch,
                avoid_4, recent_teammates, recent_opponents, avg_match_minutes,
                mod_ids, match_history>>

\* C11: an operation that answers with a validation error (a status code
\* other than 200) leaves the whole state unchanged: players, courts, history,
\* ledger and settings.
C11_ErrorChangesNothing ==
    [][resp'.code /= 200 => DbUnchanged]_vars

\* A report with invalid scores was refused while its match is on a court.
C11_Witness ==
    /\ resp.code = 400 /\ resp.error = "invalid scores"
    /\ \E c \in CourtIds : courts[c] /= NoMatch

\* uid, neither staff nor a participant, asks to cancel or to settle the live
\* match of court cid.
OutsiderActs(uid, cid) ==
    /\ courts[cid] /= NoMatch
    /\ ~IsStaff(uid)
    /\ uid \notin Participants(courts[cid])
    /\ \/ cancel_match(uid, cid)
       \/ \E set_scores \in ClubScores : submit_match(uid, cid, set_scores)

\* C12: a cancel or a submit on a live match by somebody who is neither one
\* of its four participants nor staff is rejected as Unauthorized (403) and
\* leaves the court and all players unchanged.
C12_OutsiderRejected ==
    [][\A uid \in Senders, cid \in CourtIds :
          OutsiderActs(uid, cid) => resp'.code = 403 /\ DbUnchanged]_vars

\* Player 1 was refused on a live match of four others, not being a
\* moderator.
C12_Witness ==
    /\ resp.code = 403
    /\ 1 \notin mod_ids
    /\ \E c \in CourtIds : courts[c] /= NoMatch /\ 1 \notin Participants(courts[c])

(* ------------------------ two courts' worth of queue ------------------- *)
\* The evening with NumCrowd players, enough for both courts: the session is
\* on, everybody checked in at 100 and the admin has put 1, 2 against 3, 4 on
\* court 1 (manual_matchmake); the others wait for court 2.
InitCrowd ==
    Load(_create_match_on_court(
             BlankDb([u \in 1..NumCrowd |->
                        [NewPlayer EXCEPT !.status = "queue", !.mmr = InitMmr(u),
                                          !.queue_join_ts = 100]], {}),
             1, <<1, 2>>, <<3, 4>>, "manual_admin"),
         TRUE, DefaultScoring, <<>>, DEFAULT_AVG_MATCH_MINUTES, NoProbe)

NextCrowd ==
    \/ Tick
    \/ \E court_id \in CourtIds \cup {None} : matchmake(court_id)
    \/ get_dashboard
    \/ \E uid \in Senders, cid \in CourtIds, val \in BOOLEAN :
          admin_set_automatch(uid, cid, val)
    \/ \E uid \in Senders, cid \in CourtIds, pids \in LineUps :
          manual_matchmake(uid, cid, pids)
    \/ \E uid \in Senders : cancel_match(uid, 2)

SpecCrowd == InitCrowd /\ [][NextCrowd]_vars

\* The match of court cid and the status of every player stay as they are.
CourtKept(cid) ==
    /\ courts'[cid] = courts[cid]
    /\ \A u \in Roster : players'[u].status = players[u].status

\* C13: a match is opened on a court only when the court is empty.  While
\* court cid holds a live match, manual_matchmake on it is refused and changes
\* nothing, matchmake on it reports no change and changes nothing, and a fill
\* of the free courts (matchmake without a court, the automatch of a dashboard
\* read or of admin_set_automatch) keeps its match.
C13_OpenOnlyOnEmptyCourt ==
    [][\A cid \in CourtIds :
          courts[cid] /= NoMatch =>
              /\ (\E uid \in Senders, pids \in LineUps : manual_matchmake(uid, cid, pids))
                     => resp'.code /= 200 /\ DbUnchanged
              /\ matchmake(cid) => ~resp'.changed /\ DbUnchanged
              /\ (\/ matchmake(None)
                  \/ get_dashboard
                  \/ \E uid \in Senders, c \in CourtIds, val \in BOOLEAN :
                        admin_set_automatch(uid, c, val))
                     => courts'[cid] = courts[cid]]_vars

\* manual_matchmake was refused on a court that holds a live match.
C13_Witness ==
    /\ resp.code = 400 /\ resp.error = "Court full"
    /\ \E c \in CourtIds : courts[c] /= NoMatch

(* ------------------------- claims: concurrency ------------------------- *)
\* Two request threads press the matchmake button while everybody queues;
\* the other requests are served between the steps of the fills.
NextThreads ==
    \/ \E t \in Threads, cid \in CourtIds : try_fill_read(t, cid)
    \/ \E t \in Threads : try_fill_write(t)
    \/ \E cid \in CourtIds : cancel_match(SUPER_ADMIN_ID, cid)
    \/ get_dashboard
    \/ Tick

SpecThreads == InitPairs /\ [][NextThreads]_vars

\* C14: the handlers do not interleave, so whenever a step opens a match on a
\* court, that court was empty just before and none of the four players was
\* in a live match: no two fills take the same queued player for two courts
\* and no two matches are opened on the same court.
C14_FillsDoNotCollide ==
    [][\A c \in FormedNow :
          /\ c \in CourtIds /\ courts[c] = NoMatch
          /\ \A uid \in Participants(courts'[c]) : CourtsOf(uid) = {}]_vars

(* ----------------------- claims: commitment links ---------------------- *)
\* The evening of the partner requests: players 1 to 3 ask, answer, withdraw,
\* unpair and check in and out, the admin starts and ends the session and
\* resets the club.
NextLinks ==
    \/ \E uid \in Suitors, target \in Suitors : partner_request(uid, target)
    \/ \E uid \in Suitors : partner_cancel_outgoing(uid)
    \/ \E uid \in Suitors, from_id \in Suitors, action \in {"accept", "decline"} :
          partner_respond(uid, from_id, action)
    \/ \E uid \in Suitors : partner_unpair(uid)
    \/ \E uid \in Suitors : toggle_status(uid)
    \/ \E action \in {"start", "end"} :
          admin_toggle_session(SUPER_ADMIN_ID, action, 21, 1)
    \/ \E mode \in {"stats", "all"} : admin_hard_reset(SUPER_ADMIN_ID, mode)

SpecLinks == InitPairs /\ [][NextLinks]_vars

\* C15: in every reachable state the commitment links are symmetric: if A is
\* paired with B then B is a player who is paired with A.
C15_LinksSymmetric ==
    \A a \in Roster :
        players[a].paired_with /= None =>
            /\ players[a].paired_with \in Roster
            /\ players[players[a].paired_with].paired_with = a

\* Two players are paired with each other after a third one checked out.
C15_Witness ==
    \E a \in Roster, b \in Roster, c \in Roster :
        /\ a /= b /\ players[a].paired_with = b /\ players[b].paired_with = a
        /\ players[c].status = "offline"

\* b has asked a, and the request is still waiting in a's list.
Asked(b, a) == players[b].outgoing_req = a /\ b \in SeqRange(players[a].incoming_reqs)

\* C16: a commitment is created only by consent of both: a step that pairs a
\* with b is the acceptance of a request that one of them has sent to the
\* other and that is still outstanding.
C16_PairedOnlyByConsent ==
    [][\A a \in Roster, b \in Roster :
          (/\ a \in DOMAIN players'
           /\ players'[a].paired_with = b
           /\ players[a].paired_with /= b) => (Asked(a, b) \/ Asked(b, a))]_vars

(* -------------------------- claims: queue time ------------------------- *)
\* C17: in every reachable state a player's queue_join_ts is set (non-zero)
\* if and only if the player is queued, resting, called or playing.
C17_QueueSinceIffPresent ==
    \A uid \in Roster :
        (players[uid].queue_join_ts /= 0) <=>
            (players[uid].status \in {"queue", "resting", "called", "playing"})

(* ------------------------ claims: rest and settle ---------------------- *)
\* A busy evening on one court: five players queue since 100, so that with
\* total_courts = 1 the cooldown is positive.  Player 1 opts into auto-rest
\* and toggles the rest, the admin sets the number of courts and the
\* automatch of court 1, matches are made and settled.
InitRest ==
    Fresh([u \in 1..NumPool |->
             [NewPlayer EXCEPT !.status = "queue", !.queue_join_ts = 100]],
          TRUE, {})

NextRest ==
    \/ Tick
    \/ \E count \in {1, 2} : admin_update_courts(SUPER_ADMIN_ID, count)
    \/ \E val \in BOOLEAN : admin_set_automatch(SUPER_ADMIN_ID, 1, val)
    \/ \E val \in BOOLEAN : toggle_auto_rest(1, val)
    \/ toggle_rest(1)
    \/ matchmake(1)
    \/ \E set_scores \in ClubScores : submit_match(SUPER_ADMIN_ID, 1, set_scores)

SpecRest == InitRest /\ [][NextRest]_vars

\* C18: a player put to rest with a cooldown_until by the auto-rest of a
\* settlement is eligible for selection again once the time has passed
\* cooldown_until, with no further operation by the player or an admin.
C18_RestClearsWhenOver ==
    \A uid \in Roster :
        (/\ players[uid].status = "resting"
         /\ players[uid].cooldown_until /= 0
         /\ now > players[uid].cooldown_until) => Waiting(Db, uid)

\* The step is a submit_match that settles the match of court cid.
SettledNow(cid) ==
    /\ courts[cid] /= NoMatch
    /\ Len(match_history') = Len(match_history) + 1
    /\ match_history'[1].court_id = cid

\* The cooldown in seconds that the settlement computes.
CooldownSec == 60 * _cooldown_minutes(Db, avg_match_minutes')

\* uid leaves the settlement as the claim says: in the queue since now, or
\* resting until now + cooldown when uid opted into auto-rest and the
\* cooldown is positive.
BackInLine(uid) ==
    /\ players'[uid].queue_join_ts = now
    /\ IF players[uid].auto_rest /\ CooldownSec > 0
       THEN /\ players'[uid].status = "resting"
            /\ players'[uid].cooldown_until = now + CooldownSec
       ELSE /\ players'[uid].status = "queue"
            /\ players'[uid].cooldown_until = 0

\* The automatch run that ends the settlement has put uid on a court.
CalledAgain(uid) ==
    /\ players'[uid].queue_join_ts = now
    /\ players'[uid].status = "playing"
    /\ ~(players[uid].auto_rest /\ CooldownSec > 0)
    /\ \E c \in FormedNow :
          /\ courts'[c].reason = "automatch"
          /\ uid \in Participants(courts'[c])

\* The statement as claimed: after a successful submit_match the court is
\* empty and every participant is back in line.
C19_SettleAsClaimed ==
    [][\A cid \in CourtIds :
          SettledNow(cid) =>
              /\ courts'[cid] = NoMatch
              /\ \A uid \in Participants(courts[cid]) : BackInLine(uid)]_vars

\* C19: after a successful submit_match every participant has queue_join_ts
\* = now and is queued, or resting until now + cooldown exactly when the
\* participant opted into auto-rest and the cooldown is positive, and the
\* court is empty; unless the automatch run at the end of the request has
\* filled the court again or has called the participant to a court.
C19_SettleAmended ==
    [][\A cid \in CourtIds :
          SettledNow(cid) =>
              /\ courts'[cid] = NoMatch
                 \/ (cid \in FormedNow /\ courts'[cid].reason = "automatch")
              /\ \A uid \in Participants(courts[cid]) :
                    BackInLine(uid) \/ CalledAgain(uid)]_vars

\* A match was settled just now: one participant rests for the cooldown and
\* another one was called to the court again.
C19_Witness ==
    /\ match_history /= <<>>
    /\ match_history[1].end_at = now
    /\ \E u \in Roster, w \in Roster :
          /\ {u, w} \subseteq SeqRange(match_history[1].team_a_ids
                                        \o match_history[1].team_b_ids)
          /\ players[u].status = "resting" /\ players[u].cooldown_until > now
          /\ players[w].status = "playing" /\ players[w].queue_join_ts = now

(* ------------------------ claims: filling a court ---------------------- *)
\* The queued players whose cooldown is over.
Eligible == {uid \in Roster : Waiting(Db, uid)}

\* Four eligible players exist whose commitments can be respected: each one's
\* queued partner is among the four.
FourCanPlay ==
    \E four \in SUBSET Eligible :
        /\ Cardinality(four) = 4
        /\ \A uid \in four :
              (/\ players[uid].paired_with \in Roster
               /\ players[players[uid].paired_with].status = "queue")
                  => players[uid].paired_with \in four

\* C20: filling a court fails only for lack of players: whenever four
\* eligible queued players exist whose commitments can be respected, every
\* run of the selector returns a match, also when the diversity ledger bans
\* the only four players present.
C20_SelectorFindsFour ==
    FourCanPlay => \A o \in _choose_four_for_court(Db) : o.pick /= NoPick

(* ------------------------- claims: sets of a match --------------------- *)
\* The sets of a reported result: wins of A and of B, a deuce at the cap, a
\* set that no team has won by two, and a set left empty.
SetInputs ==
    {[a |-> 21, b |-> 15], [a |-> 15, b |-> 21], [a |-> 19, b |-> 21],
     [a |-> 21, b |-> 10], [a |-> 30, b |-> 29], [a |-> 20, b |-> 21],
     [a |-> None, b |-> None]}

\* The results of up to MaxSets sets.
ResultInputs == UNION {[1..n -> SetInputs] : n \in 0..MaxSets}

\* A result arrives with the best-of of the session; submit_match counts it
\* with _winner_from_sets at the target and the cap of the session.
count_result(set_scores, bo) ==
    /\ probe = [kind |-> "result", set_scores |-> set_scores, bo |-> bo]
    /\ probe' = [kind |-> "counted", set_scores |-> set_scores, bo |-> bo,
                 out |-> _winner_from_sets(set_scores, scoring.bo, scoring.points,
                                           scoring.cap)]
    /\ UNCHANGED <<now, players, courts, session_active, total_courts, scoring,
                   automatch, avoid_4, recent_teammates, recent_opponents,
                   avg_match_minutes, mod_ids, match_history, formed, resp,
                   inflight, writeback>>

InitSets ==
    \E set_scores \in ResultInputs, bo \in {1, 2, 3} :
        Load(BlankDb(ClubPlayers(NumPlayers), {}), TRUE,
             [points |-> 21, bo |-> bo, cap |-> SCORE_CAP], <<>>,
             DEFAULT_AVG_MATCH_MINUTES,
             [kind |-> "result", set_scores |-> set_scores, bo |-> bo])

NextSets == \E set_scores \in ResultInputs, bo \in {1, 2, 3} :
                count_result(set_scores, bo)

SpecSets == InitSets /\ [][NextSets]_vars

\* The sets of the result that were played (not left empty).
Played == SelectSeq(probe.set_scores, LAMBDA s : ~(s.a = None /\ s.b = None))

SetWinner(s) == IF s.a > s.b THEN "A" ELSE "B"
Total(clean, side) ==
    SumSeq([i \in DOMAIN clean |-> IF side = "A" THEN clean[i].a ELSE clean[i].b])

\* C21: the winner of an accepted result follows the best-of rule: the sole
\* set's winner in a best-of-1, the team with two sets in a best-of-3, and in
\* a best-of-2 split 1-1 the team with more points over both sets, the last
\* set's winner deciding only when the totals are tied.
C21_WinnerFollowsBestOf ==
    (probe.kind = "counted" /\ probe.out.ok) =>
        /\ probe.bo = 1 => probe.out.winner = SetWinner(Played[1])
        /\ probe.bo = 3 => SetsWon(Played, probe.out.winner) = 2
        /\ (probe.bo = 2 /\ SetsWon(Played, "A") = 1 /\ SetsWon(Played, "B") = 1) =>
              IF Total(Played, "A") > Total(Played, "B") THEN probe.out.winner = "A"
              ELSE IF Total(Played, "B") > Total(Played, "A") THEN probe.out.winner = "B"
              ELSE probe.out.winner = SetWinner(Played[2])

\* A best-of-2 split 1-1 that A wins on points although B won the last set.
C21_Witness ==
    /\ probe.kind = "counted" /\ probe.out.ok /\ probe.bo = 2
    /\ SetsWon(Played, "A") = 1 /\ SetsWon(Played, "B") = 1
    /\ SetWinner(Played[2]) = "B" /\ probe.out.winner = "A"

\* The number of played sets fits the best-of.
SetCountFits(clean, bo) ==
    \/ bo = 1 /\ Len(clean) = 1
    \/ bo = 2 /\ Len(clean) = 2
    \/ bo = 3 /\ Len(clean) = 2 /\ (SetsWon(clean, "A") = 2 \/ SetsWon(clean, "B") = 2)
    \/ bo = 3 /\ Len(clean) = 3 /\ SetsWon(SubSeq(clean, 1, 2), "A") = 1
                                  /\ SetsWon(SubSeq(clean, 1, 2), "B") = 1

\* C22: a result whose played sets are all valid is accepted if and only if
\* their number fits the best-of: one set in a best-of-1, two in a best-of-2,
\* in a best-of-3 two sets won by one team or three sets after a 1-1 split.
C22_SetCountMustFit ==
    (/\ probe.kind = "counted"
     /\ \A i \in DOMAIN Played :
           _validate_set_score(Played[i].a, Played[i].b, scoring.points, scoring.cap))
        => (probe.out.ok <=> SetCountFits(Played, probe.bo))

\* A best-of-3 result with a third set after a 2-0 is rejected.
C22_Witness ==
    /\ probe.kind = "counted" /\ probe.bo = 3 /\ Len(Played) = 3
    /\ \A i \in DOMAIN Played :
          _validate_set_score(Played[i].a, Played[i].b, scoring.points, scoring.cap)
    /\ SetsWon(SubSeq(Played, 1, 2), "A") = 2
    /\ ~probe.out.ok

(* --------------------------- claims: the split ------------------------- *)
\* Four players of any mix of three levels queue since 100 with an empty
\* ledger; the matchmake button splits them into two teams.
Levels == {500, 1000, 1500}

InitSplit ==
    \E mmr \in [1..NumPlayers -> Levels] :
        Fresh([u \in 1..NumPlayers |->
                 [NewPlayer EXCEPT !.status = "queue", !.mmr = mmr[u],
                                   !.queue_join_ts = 100]],
              TRUE, {})

NextSplit ==
    \/ matchmake(1)
    \/ Tick
    \/ cancel_match(SUPER_ADMIN_ID, 1)

SpecSplit == InitSplit /\ [][NextSplit]_vars

\* The larger of the two rating gaps inside the teams of a split.
MaxIntraGap(sp) ==
    IF TeamGap(Db, sp.teamA) > TeamGap(Db, sp.teamB)
    THEN TeamGap(Db, sp.teamA) ELSE TeamGap(Db, sp.teamB)

\* sp is at least as good as other: a smaller largest gap inside a team, or
\* the same one and no larger difference of the team sums.
AntiCarryFirst(sp, other) ==
    \/ MaxIntraGap(sp) < MaxIntraGap(other)
    \/ MaxIntraGap(sp) = MaxIntraGap(other) /\ TeamDiff(Db, sp) <= TeamDiff(Db, other)

\* C23: among the legal splits with equal diversity penalty (here: nobody is
\* paired and the ledger was empty) the teams of a formed match have the
\* smallest largest intra-team rating gap, and among those the smallest
\* difference of the team sums.
C23_SplitAntiCarryFirst ==
    \A c \in CourtIds :
        courts[c] /= NoMatch =>
            \A k \in 1..3 :
                AntiCarryFirst([teamA |-> courts[c].team_a_ids,
                                teamB |-> courts[c].team_b_ids],
                               Splits(<<1, 2, 3, 4>>)[k])

(* --------------------------- claims: cooldown -------------------------- *)
\* The club as _cooldown_minutes finds it: q players in the queue, r resting
\* and pl playing, the others of the roster offline.
Crowd(q, r, pl) ==
    [players |->
       [u \in 1..(q + r + pl + 1) |->
          [status |-> IF u <= q THEN "queue"
                      ELSE IF u <= q + r THEN "resting"
                      ELSE IF u <= q + r + pl THEN "playing" ELSE "offline"]]]

\* The average match durations that a history can leave: the default, the
\* two ends of its range and values between.
AvgInputs == {6, 12, 13, 14, 30}

\* The rest recommendation is computed for the club of the input.
recommend_cooldown(q, r, pl, avg) ==
    /\ probe = [kind |-> "club", q |-> q, r |-> r, pl |-> pl, avg |-> avg]
    /\ probe' = [kind |-> "cooldown", q |-> q, r |-> r, pl |-> pl, avg |-> avg,
                 capacity |-> total_courts * 4,
                 cd |-> _cooldown_minutes(Crowd(q, r, pl), avg)]
    /\ UNCHANGED <<now, players, courts, session_active, total_courts, scoring,
                   automatch, avoid_4, recent_teammates, recent_opponents,
                   avg_match_minutes, mod_ids, match_history, formed, resp,
                   inflight, writeback>>

InitCooldown ==
    \E q \in 0..MaxQueued, r \in {0, 1}, pl \in {0, 4, 8}, avg \in AvgInputs :
        Load(BlankDb(ClubPlayers(NumPlayers), {}), FALSE, DefaultScoring, <<>>,
             DEFAULT_AVG_MATCH_MINUTES,
             [kind |-> "club", q |-> q, r |-> r, pl |-> pl, avg |-> avg])

NextCooldown ==
    \/ \E q \in 0..MaxQueued, r \in {0, 1}, pl \in {0, 4, 8}, avg \in AvgInputs :
          recommend_cooldown(q, r, pl, avg)
    \/ \E count \in {1, 2} : admin_update_courts(SUPER_ADMIN_ID, count)

SpecCooldown == InitCooldown /\ [][NextCooldown]_vars

\* The statement as claimed: the recommendation is 0 whenever the queued
\* players alone do not exceed the capacity.
C24_CooldownAsClaimed ==
    probe.kind = "cooldown" =>
        /\ probe.cd \in 0..25
        /\ probe.q <= probe.capacity => probe.cd = 0

\* C24: the cooldown recommendation is an integer in 0..25 minutes, and it
\* is 0 whenever the players who are queued, resting or playing do not
\* exceed the capacity of the courts (courts x 4).
C24_CooldownAmended ==
    probe.kind = "cooldown" =>
        /\ probe.cd \in 0..25
        /\ probe.q + probe.r + probe.pl <= probe.capacity => probe.cd = 0

\* The recommendation is at its upper end for an overcrowded club.
C24_Witness ==
    /\ probe.kind = "cooldown"
    /\ probe.q + probe.r + probe.pl > probe.capacity
    /\ probe.cd = 25

(* ------------------------- claims: write-behind ------------------------ *)
\* Nothing but the write-behind changes.
OnlyStore ==
    UNCHANGED <<now, players, courts, session_active, total_courts, scoring,
                automatch, avoid_4, recent_teammates, recent_opponents,
                avg_match_minutes, mod_ids, match_history, formed, resp, probe,
                inflight>>

\* save_db at the end of a request handler: _DB_VERSION += 1, _DB_DIRTY =
\* True.  The handler's thread holds no lock, so it runs at any point of a
\* flush.
save_db ==
    /\ writeback.version < MaxSaves
    /\ writeback' = [writeback EXCEPT !.version = @ + 1, !.dirty = TRUE]
    /\ OnlyStore

\* _flush_to_disk, first step: return unless dirty, else take DB_LOCK.
flush_begin ==
    /\ writeback.pc = "idle"
    /\ writeback.dirty
    /\ writeback' = [writeback EXCEPT !.pc = "locked"]
    /\ OnlyStore

\* _atomic_write_json writes the cache as it is now, or raises.
flush_write(ok) ==
    /\ writeback.pc = "locked"
    /\ writeback' = IF ok THEN [writeback EXCEPT !.disk = writeback.version, !.pc = "written"]
                ELSE [writeback EXCEPT !.pc = "idle"]
    /\ OnlyStore

\* _DB_DIRTY = False after the write, then DB_LOCK is released.
flush_clear ==
    /\ writeback.pc = "written"
    /\ writeback' = [writeback EXCEPT !.dirty = FALSE, !.pc = "idle"]
    /\ OnlyStore

NextStore ==
    \/ save_db
    \/ flush_begin
    \/ \E ok \in BOOLEAN : flush_write(ok)
    \/ flush_clear

SpecStore == InitPairs /\ [][NextStore]_vars

\* C25: the dirty flag is never cleared for a mutation that was not written:
\* whenever the disk does not hold the version in memory the flag is set, so
\* that a later flush writes it (a failed write keeps the flag, a save_db
\* during a flush is not lost).
C25_UnwrittenStaysDirty == writeback.disk /= writeback.version => writeback.dirty

(* ---------------------- claims: committed pairs ------------------------ *)
\* Five players in the queue at equal ratings, one of them since earlier than
\* the others; player 1 asks player 5, who accepts, and either may part again.
Mates == {1, 5}

InitUnits ==
    \E ts \in PoolJoin :
        Fresh([u \in 1..NumPool |->
                 [NewPlayer EXCEPT !.status = "queue",
                                   !.queue_join_ts = ts[((u - 1) % Len(ts)) + 1]]],
              TRUE, {})

NextUnits ==
    \/ partner_request(1, 5)
    \/ partner_respond(5, 1, "accept")
    \/ \E uid \in Mates : partner_unpair(uid)
    \/ Tick
    \/ matchmake(1)
    \/ cancel_match(SUPER_ADMIN_ID, 1)

SpecUnits == InitUnits /\ [][NextUnits]_vars

\* The pair a, b stands in the units of the eligible players as one unit whose
\* timestamp is the smaller of the two queue_join_ts.
OneUnit(db, a, b) ==
    LET units == _pair_units(db, _eligible_players(db))
    IN  /\ \E i \in DOMAIN units :
              /\ SeqRange(units[i].members) = {a, b}
              /\ units[i].ts = Min(db.players[a].queue_join_ts,
                                   db.players[b].queue_join_ts)
        /\ \A i \in DOMAIN units :
              SeqRange(units[i].members) \cap {a, b} \in {{}, {a, b}}

\* C26: a mutually committed pair whose members are both eligible is one unit
\* with the smaller queue_join_ts of the two as its timestamp, and a match the
\* selector forms never holds one member of such a pair without the other.
C26_PairSelectedWhole ==
    [][\A a \in Roster, b \in Roster :
          (Committed(players, a, b) /\ Waiting(Db, a) /\ Waiting(Db, b))
              => /\ OneUnit(Db, a, b)
                 /\ \A c \in FormedBySelector :
                       a \in Participants(courts'[c]) => b \in Participants(courts'[c])]_vars

\* A match of the selector holds a committed pair whose members had queued at
\* different times, and a fifth player was left out.
C26_Witness ==
    /\ courts[1] /= NoMatch
    /\ courts[1].reason = "manual_button"
    /\ \E a \in Participants(courts[1]), b \in Participants(courts[1]) :
          Committed(players, a, b)
    /\ \E u \in Roster : players[u].status = "queue"

(* ------------------------ claims: the countdown ------------------------ *)
\* started of _public_match_state: the countdown of the match is over.
Started(state) == now >= state.start_at

\* C27: a match on a court starts 60 s after it was created, and its four
\* players have the status called while the countdown runs and the status
\* playing only once now >= start_at.
C27_CalledUntilStart ==
    \A c \in CourtIds :
        courts[c] /= NoMatch =>
            /\ courts[c].start_at = courts[c].created_at + 60
            /\ \A u \in Participants(courts[c]) :
                  players[u].status = (IF Started(courts[c]) THEN "playing" ELSE "called")

(* ------------------- claims: the ledger after a match ------------------ *)
\* The records of settled matches whose ledger entries a matchmaking call at
\* time now still finds (_cleanup_diversity keeps them).
RecentRecords ==
    {i \in DOMAIN match_history :
        now - match_history[i].created_at <= DIVERSITY_WINDOW_SEC}

\* The pairs of players who can stand against the team in the next match.
OpponentsOf(team_ids) ==
    {pair \in (Roster \ SeqRange(team_ids)) \X (Roster \ SeqRange(team_ids)) :
        pair[1] < pair[2]}

\* The diversity penalty a matchmaking call at time now gives the team against
\* the opponents.
PenaltyNow(team_ids, opponent_ids) ==
    _score_pair_diversity(_cleanup_diversity(Db), team_ids, opponent_ids,
                          _get_partner_pairs(Db, team_ids \o opponent_ids))

TeamsOf(record) == {record.team_a_ids, record.team_b_ids}

MixedMatches ==
    [i \in 1..Len(OldChanges) |->
        [OldMatch(i) EXCEPT
           !.team_a_ids = <<2, 5>>, !.team_b_ids = <<4, 6>>,
           !.mmr_changes = [u \in {2, 4, 5, 6} |->
                              IF u \in {2, 5} THEN 0 - OldChanges[i] ELSE OldChanges[i]]]]

\* A veteran who is not checked in.
Away(u) ==
    [Veteran(u, 1000) EXCEPT !.status = NewPlayer.status,
                             !.queue_join_ts = NewPlayer.queue_join_ts]

\* Newcomers 1 and 3 meet the veterans 2 and 4 of the ten games: 1, 2 against
\* 3, 4 on court 1; the veterans 5 and 6 are away.
InitMixed ==
    \E mmr \in RatingRows, bo \in {1, 3} :
        Load(_create_match_on_court(
                 BlankDb([u \in 1..6 |->
                            IF u \in {1, 3} THEN Newcomer(mmr[u])
                            ELSE IF u \in {2, 4} THEN Veteran(u, mmr[u])
                            ELSE Away(u - 4)], {}),
                 1, <<1, 2>>, <<3, 4>>, "manual_admin"),
             TRUE, [points |-> 21, bo |-> bo, cap |-> SCORE_CAP],
             MixedMatches, 10, NoProbe)

NextMixed ==
    \/ Tick
    \/ \E uid \in {SUPER_ADMIN_ID, 1}, set_scores \in RatingScores :
          submit_match(uid, 1, set_scores)

SpecMixed == InitMixed /\ [][NextMixed]_vars

Sign(x) == IF x > 0 THEN 1 ELSE IF x < 0 THEN 0 - 1 ELSE 0

\* The pairs of a calibrating and a ranked participant on the same team.
MixedMates ==
    {m \in (TeamA \X TeamA) \cup (TeamB \X TeamB) :
        is_unranked(players[m[1]]) /\ ~is_unranked(players[m[2]])}

mmr_display(p) ==
    IF is_unranked(p) THEN [text |-> "UNRANK", n |-> p.calib_played]
    ELSE [text |-> "MMR", n |-> p.mmr]

\* rank_title: the titles are numbered from the lowest, 1, to the highest, 9.
rank_title(mmr) ==
    IF mmr < 1000 THEN 1
    ELSE IF mmr < 1200 THEN 2
    ELSE IF mmr < 1400 THEN 3
    ELSE IF mmr < 1600 THEN 4
    ELSE IF mmr < 1700 THEN 5
    ELSE IF mmr < 1800 THEN 6
    ELSE IF mmr < 2000 THEN 7
    ELSE IF mmr < 2300 THEN 8
    ELSE 9

rank_color(mmr) ==
    IF mmr >= 1800 THEN "badge-error"
    ELSE IF mmr >= 1600 THEN "badge-secondary"
    ELSE "badge-primary"

\* wl_badge_class: the badge and the rounded percentage of sets won.
wl_badge_class(p) ==
    LET total == p.sets_w + p.sets_l
    IN  IF total = 0 THEN [cls |-> "badge-ghost", wr |-> 0]
        ELSE [cls |-> IF p.sets_w * 100 < 40 * total THEN "badge-error"
                      ELSE IF p.sets_w * 100 < 60 * total THEN "badge-neutral"
                      ELSE "badge-success",
              wr |-> RoundHalfEven(p.sets_w * 100, total)]

progression_bar(p) ==
    IF is_unranked(p)
    THEN [type |-> "calib", n |-> p.calib_played,
          pct |-> RoundHalfEven(p.calib_played * 100, 10)]
    ELSE LET lo == (p.mmr \div 100) * 100
         IN  [type |-> "mmr", lo |-> lo, hi |-> lo + 99,
              pct |-> Max(0, Min(100, RoundHalfEven((p.mmr - lo) * 100, 99))),
              to_up |-> Max(0, lo + 100 - p.mmr), to_down |-> Max(0, p.mmr - lo),
              mid |-> lo + 50]

\* _public_player_min: the record of player uid in the dashboard lists and
\* the leaderboards.
_public_player_min(db, uid) ==
    LET p == db.players[uid]
    IN  [id |-> uid, status |-> p.status, mmr_display |-> mmr_display(p),
         mmr |-> p.mmr, unranked |-> is_unranked(p), calib_played |-> p.calib_played,
         rank_title |-> rank_title(p.mmr), rank_color |-> rank_color(p.mmr),
         wr |-> wl_badge_class(p).wr, wr_badge |-> wl_badge_class(p).cls,
         queue_join_ts |-> p.queue_join_ts, cooldown_until |-> p.cooldown_until,
         auto_rest |-> p.auto_rest, priority_match |-> p.priority_match,
         paired_with |-> p.paired_with, outgoing_req |-> p.outgoing_req,
         incoming_reqs |-> p.incoming_reqs,
         points_for |-> p.points_for, points_against |-> p.points_against,
         sets_w |-> p.sets_w, sets_l |-> p.sets_l,
         match_w |-> p.match_w, match_l |-> p.match_l,
         best_streak |-> p.best_streak, cur_streak |-> p.cur_streak,
         progress |-> progression_bar(p)]

\* pl of _public_match_state: a participant in the match view.
MatchViewPlayer(db, uid) ==
    LET p == db.players[uid]
    IN  [id |-> uid, unranked |-> is_unranked(p), mmr_display |-> mmr_display(p),
         rank_title |-> rank_title(p.mmr), rank_color |-> rank_color(p.mmr),
         wr |-> wl_badge_class(p).wr, wr_badge |-> wl_badge_class(p).cls]

_public_match_state(db, state) ==
    IF state = NoMatch THEN [court_id |-> None]
    ELSE [court_id |-> state.court_id, created_at |-> state.created_at,
          start_at |-> state.start_at, started |-> Started(state),
          elapsed_sec |-> IF Started(state) THEN Max(0, now - state.start_at) ELSE 0,
          countdown_sec |-> Max(0, state.start_at - now),
          team_a |-> [i \in DOMAIN state.team_a_ids |->
                        MatchViewPlayer(db, state.team_a_ids[i])],
          team_b |-> [i \in DOMAIN state.team_b_ids |->
                        MatchViewPlayer(db, state.team_b_ids[i])]]

\* admin_set_mmr: staff store a new rating for the target.
admin_set_mmr(uid, tid, nv) ==
    IF ~IsStaff(uid) THEN Reject(403)
    ELSE IF tid \notin Roster THEN Reject(404)
    ELSE /\ players' = [players EXCEPT ![tid].mmr = nv]
         /\ resp' = Ok(TRUE)
         /\ OnlyPlayers

\* The ratings an admin stores.
NewRatings == {900, 1000, 1650, 1850}

\* The newcomers 1 and 3 play with the veterans 2 and 4 on court 1 while an
\* admin stores new ratings for newcomer 1 and veteran 2.
NextPublic ==
    \/ \E uid \in {SUPER_ADMIN_ID, 1}, tid \in {1, 2, 7}, nv \in NewRatings :
          admin_set_mmr(uid, tid, nv)
    \/ Tick

SpecPublic == InitMixed /\ [][NextPublic]_vars

\* What the dashboard shows of the players and of the courts.
PublicPlayers(db) == [u \in DOMAIN db.players |-> _public_player_min(db, u)]
PublicCourts(db) == [c \in DOMAIN db.courts |-> _public_match_state(db, db.courts[c])]

\* C30: a step that changes nothing but the stored rating of a calibrating
\* player leaves the public player records of the dashboard lists and of the
\* match view as they were.
C30_UnrankedRatingHidden ==
    [][\A tid \in Roster :
          (/\ is_unranked(players[tid])
           /\ players' = [players EXCEPT ![tid].mmr = players'[tid].mmr]
           /\ courts' = courts /\ now' = now)
              => /\ PublicPlayers(Db)' = PublicPlayers(Db)
                 /\ PublicCourts(Db)' = PublicCourts(Db)]_vars

(* ------------------------ claims: a live match ------------------------- *)
\* The selector has just put the committed pair 1, 2 against 3, 4 on court 1;
\* no automatch is on and nobody asks for another match.
InitLive ==
    Load(_create_match_on_court(
             BlankDb([u \in 1..NumPlayers |->
                        [Newcomer(DEFAULT_MMR) EXCEPT
                           !.paired_with = IF u = 1 THEN 2 ELSE IF u = 2 THEN 1 ELSE None]],
                     {}),
             1, <<1, 2>>, <<3, 4>>, "manual_button"),
         TRUE, DefaultScoring, <<>>, DEFAULT_AVG_MATCH_MINUTES, NoProbe)

NextLive ==
    \/ Tick
    \/ \E uid \in {1, 3}, target \in {1, 2, 3} : partner_request(uid, target)
    \/ \E uid \in {1, 2, 3}, from_id \in {1, 3} : partner_respond(uid, from_id, "accept")
    \/ \E uid \in {1, 2} : partner_unpair(uid)
    \/ \E uid \in {1, 3} : toggle_status(uid)
    \/ \E uid \in {1, 3} : toggle_rest(uid)
    \/ \E uid \in {SUPER_ADMIN_ID, 1} : cancel_match(uid, 1)

SpecLive == InitLive /\ [][NextLive]_vars

\* The step takes the match off court 1.
EndsMatch == courts[1] /= NoMatch /\ courts'[1] = NoMatch

\* C31: players 1 and 2 were committed to each other when the match on court 1
\* was formed; when the match is cancelled they are committed to each other,
\* also after a partner_unpair during the match.
C31_CancelRestoresCommitment ==
    [][EndsMatch => Committed(players', 1, 2)]_vars

(* ---------------------- claims: asking for a partner ------------------- *)
\* The four players in the queue ask one another, accept, take
\* requests back and part.
Askers == {1, 2, 3, 4}

NextAsk ==
    \/ \E uid \in Askers : \E target \in Askers \ {uid} : partner_request(uid, target)
    \/ \E uid \in Askers : \E from_id \in Askers \ {uid} :
          partner_respond(uid, from_id, "accept")
    \/ \E uid \in Askers : partner_cancel_outgoing(uid)
    \/ \E uid \in Askers : partner_unpair(uid)

SpecAsk == InitPairs /\ [][NextAsk]_vars

\* The handler answers 400 and leaves the database as it was.
Refused ==
    /\ resp'.code = 400
    /\ UNCHANGED <<players, courts, automatch, avoid_4, recent_teammates,
                   recent_opponents, match_history, session_active>>

Paired(uid) == players[uid].paired_with /= None

\* C32: partner_request of a player who is paired, or who has asked somebody
\* else, is refused and changes nothing; partner_respond accept is refused and
\* changes nothing when either side is paired; so no step gives a paired
\* player another partner or a request, or replaces a request by another.
C32_OneRequestOnePartner ==
    [][/\ \A uid \in Roster, target \in Roster :
             (/\ partner_request(uid, target)
              /\ Paired(uid) \/ players[uid].outgoing_req \notin {None, target})
                 => Refused
       /\ \A uid \in Roster, from_id \in Roster :
             (partner_respond(uid, from_id, "accept") /\ (Paired(uid) \/ Paired(from_id)))
                 => Refused
       /\ \A uid \in Roster :
             /\ Paired(uid) =>
                   /\ players'[uid].paired_with \in {None, players[uid].paired_with}
                   /\ players'[uid].outgoing_req \in {None, players[uid].outgoing_req}
             /\ players'[uid].outgoing_req \in {None, players[uid].outgoing_req}
                \/ players[uid].outgoing_req = None]_vars

\* A request or an accept has just been refused while players 1 and 2 are
\* committed to each other and player 3 has asked one of them.
C32_Witness ==
    /\ resp.code = 400
    /\ Committed(players, 1, 2)
    /\ players[3].outgoing_req \in {1, 2}

(* --------------------- claims: the end of calibration ------------------ *)
\* Player u after the oldest n of the ten old games: team B (3, 4) won the
\* oldest, then the teams won in turn, every game 21-15.
Seasoned(u, n) ==
    LET wins == IF u <= 2 THEN n \div 2 ELSE n - n \div 2
        won_last == (u <= 2) = (n % 2 = 0)
    IN  [Veteran(u, DEFAULT_MMR) EXCEPT
           !.calib_played = n, !.calib_wins = wins, !.calib_losses = n - wins,
           !.calib_streak = IF won_last THEN 1 ELSE 0,
           !.cur_streak = IF won_last THEN 1 ELSE 0,
           !.sets_w = wins, !.sets_l = n - wins,
           !.match_w = wins, !.match_l = n - wins,
           !.points_for = 21 * wins + 15 * (n - wins),
           !.points_against = 15 * wins + 21 * (n - wins)]

GamesPlayed == {8, 9, 10}

\* 1, 2 against 3, 4 on court 1 after eight, nine or ten games together.
InitCalib ==
    \E n \in GamesPlayed :
        Load(_create_match_on_court(
                 BlankDb([u \in 1..NumPlayers |-> Seasoned(u, n)], {}),
                 1, <<1, 2>>, <<3, 4>>, "manual_admin"),
             TRUE, DefaultScoring,
             SubSeq(OldMatches, Len(OldMatches) + 1 - n, Len(OldMatches)), 10, NoProbe)

NextCalib ==
    \/ Tick
    \/ \E set_scores \in RatingScores : submit_match(SUPER_ADMIN_ID, 1, set_scores)
    \/ \E pids \in {<<1, 2, 3, 4>>, <<1, 3, 2, 4>>} :
          manual_matchmake(SUPER_ADMIN_ID, 1, pids)

SpecCalib == InitCalib /\ [][NextCalib]_vars

Settled(p) == p.match_w + p.match_l

\* C33: calibration is the first ten settled matches of a player: the counter
\* counts the settled matches up to ten and never passes it, wins and losses
\* of the calibration add up to it, the player is unranked exactly while it is
\* below ten, and from the tenth settled match on the matchmaking rating is
\* the stored rating.
C33_CalibrationIsFirstTen ==
    \A u \in Roster :
        /\ players[u].calib_played <= 10
        /\ players[u].calib_played = Min(10, Settled(players[u]))
        /\ players[u].calib_wins + players[u].calib_losses = players[u].calib_played
        /\ is_unranked(players[u]) <=> players[u].calib_played < 10
        /\ Settled(players[u]) >= 10
              => effective_mmr_for_matchmaking(players[u]) = players[u].mmr

\* A player has settled eleven matches, the tenth and the eleventh of them in
\* this run.
C33_Witness ==
    /\ Len(match_history) = 11
    /\ match_history[2].created_at >= 100
    /\ \E u \in Roster : Settled(players[u]) = 11 /\ players[u].calib_played = 10

(* ------------------- claims: courts, session and resets ---------------- *)
\* The club before the evening: the staff start and end the session, change
\* the number of courts, switch the automatch, put the four players on a
\* court by hand, cancel and reset; player 1 checks in and out.
CourtCounts == {1, 2, 3}

NextCourts ==
    \/ Tick
    \/ toggle_status(1)
    \/ \E action \in {"start", "end"} : admin_toggle_session(SUPER_ADMIN_ID, action, 21, 1)
    \/ \E count \in CourtCounts : admin_update_courts(SUPER_ADMIN_ID, count)
    \/ \E cid \in {1, 3}, val \in BOOLEAN : admin_set_automatch(SUPER_ADMIN_ID, cid, val)
    \/ \E cid \in CourtCounts : manual_matchmake(SUPER_ADMIN_ID, cid, <<1, 2, 3, 4>>)
    \/ \E cid \in CourtCounts : cancel_match(SUPER_ADMIN_ID, cid)
    \/ \E mode \in {"stats", "all"} : admin_hard_reset(SUPER_ADMIN_ID, mode)

SpecCourts == Init /\ [][NextCourts]_vars

\* The player is a participant of the match of a court that exists.
OnSomeCourt(uid) ==
    \E c \in CourtIds : courts[c] /= NoMatch /\ uid \in Participants(courts[c])

\* C34: a player has the status playing if and only if the player is a
\* participant of the match of some existing court.
C34_PlayingIffOnCourt ==
    \A uid \in Roster : players[uid].status = "playing" <=> OnSomeCourt(uid)

\* C37: while no session is active every court is empty and every player is
\* offline.
C37_NothingWithoutSession ==
    ~session_active =>
        /\ \A c \in CourtIds : courts[c] = NoMatch
        /\ \A uid \in Roster : players[uid].status = "offline"

\* C38: the court ids and the automatch ids are both 1..total_courts, and
\* total_courts is between 1 and 10.
C38_CourtsMatchTotal ==
    /\ total_courts \in 1..10
    /\ CourtIds = 1..total_courts
    /\ DOMAIN automatch = 1..total_courts

(* ------------------------ claims: the skill cap ------------------------ *)
\* cand of _choose_four_for_court: the first CAND_LIMIT ids of the pool.
Candidates(db) ==
    FirstOf(_build_candidate_pool(db, _pair_units(db, _eligible_players(db))), CAND_LIMIT)

\* The match on court c is new and the selector chose it among the players
\* who were waiting before the step.
ChosenFromQueue(c) ==
    /\ c \in FormedBySelector
    /\ \A uid \in Participants(courts'[c]) : Waiting(Db, uid)

\* C39: a match the selector returns when it has more than four candidates
\* has team sums of effective ratings that differ by at most
\* HARD_SKILL_THRESHOLD (500).
C39_CapWithAlternatives ==
    [][\A c \in DOMAIN courts' :
          (ChosenFromQueue(c) /\ Len(Candidates(Db)) > 4)
              => Abs(courts'[c].team_mmr_a2 - courts'[c].team_mmr_b2) <= 500]_vars

\* The selector had five candidates, one of them rated 3000 against 1000 of
\* the others, and formed the first match of the evening without that one.
C39_Witness ==
    /\ formed = 1
    /\ \E c \in CourtIds :
          /\ courts[c] /= NoMatch
          /\ courts[c].reason \in {"automatch", "manual_button"}
          /\ \E uid \in Roster \ Participants(courts[c]) :
                players[uid].mmr = 3000 /\ players[uid].status = "queue"

(* --------------------- claims: leaving a live match -------------------- *)
\* The match of InitLive is on; players 1 and 3 try to check out and to rest,
\* the pair may part, the match is settled or cancelled, the staff end and
\* start the session, change the number of courts and reset.
NextLeave ==
    \/ Tick
    \/ \E uid \in {1, 3} : toggle_status(uid)
    \/ \E uid \in {1, 3} : toggle_rest(uid)
    \/ \E uid \in {1, 2} : partner_unpair(uid)
    \/ \E uid \in {SUPER_ADMIN_ID, 1} : cancel_match(uid, 1)
    \/ \E set_scores \in {<<[a |-> 21, b |-> 15]>>, <<[a |-> 15, b |-> 21]>>} :
          submit_match(3, 1, set_scores)
    \/ \E action \in {"start", "end"} : admin_toggle_session(SUPER_ADMIN_ID, action, 21, 1)
    \/ \E count \in {1, 2} : admin_update_courts(SUPER_ADMIN_ID, count)
    \/ \E mode \in {"stats", "all"} : admin_hard_reset(SUPER_ADMIN_ID, mode)

SpecLeave == InitLive /\ [][NextLeave]_vars

Playing(uid) == players[uid].status = "playing"

\* The step takes the player's match off its court: a settlement or a cancel.
HisMatchEnds(uid) ==
    \E c \in CourtIds :
        /\ courts[c] /= NoMatch
        /\ uid \in Participants(courts[c])
        /\ c \in DOMAIN courts'
        /\ courts'[c] /= courts[c]
        /\ \/ Len(match_history') = Len(match_history) + 1
           \/ /\ match_history' = match_history
              /\ \E i \in DOMAIN avoid_4' : avoid_4'[i].kind = "cancelled" /\ avoid_4'[i].ts = now

\* The step ends the session or is a hard reset: nobody is checked in after it.
EveryoneOut ==
    /\ ~session_active'
    /\ \A v \in DOMAIN players' : players'[v].status = "offline"

\* C40: toggle_status and toggle_rest of a playing player answer 400 and
\* leave the players and the courts as they were, and a player's status
\* changes away from playing only when the player's match is settled or
\* cancelled, the session ends or the database is reset.
C40_NoWayOutOfAMatch ==
    [][\A uid \in Roster :
          Playing(uid) =>
              /\ (toggle_status(uid) \/ toggle_rest(uid))
                    => resp'.code = 400 /\ UNCHANGED <<players, courts>>
              /\ (uid \notin DOMAIN players' \/ players'[uid].status /= "playing")
                    => HisMatchEnds(uid) \/ EveryoneOut]_vars

\* Player 1 has just been refused while the match is on.
C40_Witness ==
    /\ resp.code = 400
    /\ courts[1] /= NoMatch
    /\ 1 \in Participants(courts[1])
    /\ players[1].status = "playing"
    /\ players[1].queue_join_ts = 100

(* --------------------- claims: four different players ------------------ *)
\* C35: the four participants of every match the selector has formed are
\* pairwise different players, two on each team.
C35_FourDistinctPlayers ==
    \A c \in CourtIds :
        (courts[c] /= NoMatch /\ courts[c].reason \in {"automatch", "manual_button"})
            => /\ Len(courts[c].team_a_ids) = 2
               /\ Len(courts[c].team_b_ids) = 2
               /\ Cardinality(Participants(courts[c])) = 4

(* --------------------- claims: the request books ----------------------- *)
\* C36: in every reachable state a player p has an outgoing request to t
\* exactly when p is listed in t's incoming requests, and a player with an
\* accepted commitment has no outgoing request.
C36_RequestBooksAgree ==
    /\ \A p \in DOMAIN players : \A t \in DOMAIN players :
          (players[p].outgoing_req = t) <=> (p \in SeqRange(players[t].incoming_reqs))
    /\ \A p \in DOMAIN players :
          players[p].paired_with /= None => players[p].outgoing_req = None


\* Two players are paired with each other while a third one's request to one
\* of them is still waiting, in the sender's record and in the receiver's list.
C36_Witness ==
    \E a \in Roster, b \in Roster, c \in Roster :
        /\ a /= b /\ c \notin {a, b}
        /\ players[a].paired_with = b /\ players[b].paired_with = a
        /\ players[c].outgoing_req = a /\ c \in SeqRange(players[a].incoming_reqs)

====
